---------------------------- MODULE Spec2Model ----------------------------
(***************************************************************************)
(* Model of the Firebird database monitoring snapshot subsystem            *)
(* (jrd/DatabaseSnapshot.cpp): the shared-memory store of per-process      *)
(* contributions (MonitoringData), the row filter of the snapshot          *)
(* constructor, and the monitor-lock / blocking-AST protocol.              *)
(*                                                                         *)
(* Eleven specifications share the module:                                 *)
(*   SpecStore    - the store operations, bracketed by acquire/release     *)
(*   SpecFilter   - the parse loop of DatabaseSnapshot::DatabaseSnapshot   *)
(*   SpecProto    - blockingAst and the constructor's lock protocol        *)
(*   SpecAst      - the same for two instances, the shared lock taken      *)
(*                  again at any moment                                    *)
(*   SpecAstFair  - SpecAst with the running threads and the lock manager  *)
(*                  going on                                               *)
(*   SpecSnapshot - DatabaseSnapshot::create and the id map of putField    *)
(*   SpecField    - a string field on its way from the dump to the record  *)
(*   SpecGuard    - Mutex and MutexCheckoutGuard (common/classes/locks.h)  *)
(*   SpecRef      - addRef/release of threads on one RefCounted object     *)
(*   SpecPtr      - RefPtr instances and the objects they point at         *)
(*   SpecLocks    - the order in which one process's threads take locks    *)
(* Each one parks the variables of the others.                             *)
(***************************************************************************)
EXTENDS Integers, Sequences, FiniteSets, TLC

VARIABLES
    \* ---- shared region (MonitoringData) ----
    mutex,        \* the mutex embedded in the region header: its holder, 0 when free
    used,         \* sh_mem_header->used
    allocated,    \* sh_mem_header->allocated
    elems,        \* the elements laid out after the header, in address order
    corrupt,      \* TRUE once an operation decoded or overwrote bytes that are no element
    pc,           \* per instance: position of its thread in dumpData / read / ~MonitoringData
    woffset,      \* per instance: Writer::offset, the value setup() returned
    mapped,       \* per instance: sh_mem_length_mapped
    alive,        \* per process id: what ISC_check_process_existence answers
    rd,           \* per instance: outcome of its last read() (kept until release)
    nwrites,      \* per instance: write() calls made in the current window
    ndumps,       \* dumpData rounds started so far
    fileRemoved,  \* removeMapFile() was called
    profile,      \* the workload of this behaviour (fixed by Init)
    cleaned,      \* inside dumpData's Guard: who called cleanup(), and how many
                  \* elements the call removed
    space,        \* per instance, inside dumpData's Guard: the last ensureSpace
                  \* call of setup() or write(): its arguments and its outcome
    ctorDump,     \* per instance, between the constructor's dumpData and its
                  \* read(): "own" after that dumpData, "ast" / "astFailed" after
                  \* a blockingAst dumpData that returned / raised; else "none"
    \* ---- the parse loop of the snapshot constructor ----
    dump,         \* the records the Reader yields, in stream order
    requester,    \* databaseName, userName and locksmith of the requesting attachment
    parsed,       \* the parse loop has run
    stored,       \* the records given to buffer->store(): index in dump, fields put
    flags,        \* dbb_processed, dbb_allowed, att_allowed when the loop ended
    \* ---- the monitor lock round (constructor and blockingAst) ----
    dbb_monitor_lock,  \* per database instance: "SR" while its shared lock is held, else "none"
    DBB_monitor_off,   \* per database instance: the bit of dbb_ast_flags
    dbb_mon_sync,      \* per database instance: holder of the latch, "free" when none
    temp_lock,         \* per database instance: the constructor's LCK_EX request: "none",
                       \* "waiting", "granted", or "denied" once LCK_lock returned false
    wpc,               \* per database instance: position of its thread in the constructor
    apc,               \* per database instance: position of its AST thread in blockingAst
    astFailed,         \* per database instance: dumpData raised in the running blockingAst
    lastAst,           \* per database instance: how its last blockingAst call ended,
                       \* kept until the instance next touches its lock
    nsnap,             \* snapshots started so far
    heldAtRequest,     \* per requester, while its LCK_EX request stands: the peers whose
                       \* shared lock was held when it asked
    publishedSince,    \* per requester, while its LCK_EX request stands: the peers whose
                       \* AST finished a dumpData since it asked
    nreacq,            \* re-acquisitions of a shared monitor lock so far
    astFresh,          \* per database instance: the blockingAst call in progress was
                       \* made after DBB_monitor_off was last cleared
    \* ---- the snapshot object of a transaction (create, putField) ----
    tra_db_snapshot,   \* per transaction: its snapshot, 0 for NULL
    tpc,               \* per transaction: "idle", or "building" inside the constructor
    rounds,            \* per transaction: constructors started (publish / force / read rounds)
    storeVersion,      \* how often the shared store has changed
    rows,              \* per transaction: the store version its snapshot's buffers were read at
    lastCreate,        \* per transaction: what its last create() returned and whether it built
    idMap,             \* per transaction: DataDump::idMap of the snapshot (global id -> local id)
    idCounter,         \* per transaction: DataDump::idCounter of the snapshot
    idLog,             \* per transaction: the GLOBAL_ID fields putField has moved, in order
    ncalls,            \* create() calls so far
    nfields,           \* putField calls so far
    \* ---- a string field moved by the constructor's putField ----
    field,             \* the DumpField the Reader yields: its type and its bytes
    att_charset,       \* att_charset of the attachment the string was collected from
    to_charset,        \* to_desc.getCharSet(): the charset of the record's slot
    from_desc,          \* the descriptor putField hands to MOV_move: charset and bytes
    \* ---- Mutex and its guards (common/classes/locks.h) ----
    mtx,          \* per mutex: the thread that owns it (0 when free) and its lockCount
    gpc,          \* per thread: its position around a MutexCheckoutGuard
    atEntry,       \* per thread: how often it held each mutex when its guard was constructed
    \* ---- one RefCounted object (common/classes/RefCounted.h) ----
    m_refCnt,     \* RefCounted::m_refCnt
    deletes,      \* how many times "delete this" ran
    deleters,     \* the release() calls that ran it: thread and its local refCnt
    rpc,          \* per thread: idle, between the decrement and the test of release(), or stopped
    refCnt,       \* per thread: the local refCnt of its release()
    nAddRef,      \* addRef() calls that returned
    nRelease,     \* release() calls started
    zeroed,       \* the counter has returned to 0
    late,         \* a call started after the counter had returned to 0
    lateOk,        \* a call started after the deletion and went through
    \* ---- RefPtr instances and the objects they point at (common/classes/RefCounted.h) ----
    ptr,          \* per RefPtr instance: RefPtr::ptr (NULL is 0), NoPtr while not constructed
    counts,       \* per object: its m_refCnt
    freed,        \* per object: how many times it was deleted
    asg,          \* the assign() in progress: its instance, its argument and the old target
    op,           \* the operation called last
    nops,          \* operations called so far
    \* ---- the four locks of one process (constructor, blockingAst, dumpData) ----
    latchOwner,   \* per latch (dbb_mon_sync, region mutex, attachment latches): its thread, 0 when free
    sharedHeld,   \* the process holds its shared monitor lock
    exHolder,     \* the thread that holds the exclusive monitor lock, 0 for none
    monitorOff,   \* DBB_monitor_off
    lpc,          \* per thread: the line it is at
    attIdx,       \* per thread: the attachment its loop in dumpData is at
    caller        \* per thread: who called its dumpData

storeVars == <<mutex, used, allocated, elems, corrupt, pc, woffset, mapped,
               alive, rd, nwrites, ndumps, fileRemoved, profile, cleaned, space, ctorDump>>

filterVars == <<dump, requester, parsed, stored, flags>>

protoVars == <<dbb_monitor_lock, DBB_monitor_off, dbb_mon_sync, temp_lock, wpc, apc,
               astFailed, lastAst, nsnap, heldAtRequest, publishedSince, nreacq,
               astFresh>>

snapVars == <<tra_db_snapshot, tpc, rounds, storeVersion, rows, lastCreate,
              idMap, idCounter, idLog, ncalls, nfields>>

fieldVars == <<field, att_charset, to_charset, from_desc>>

guardVars == <<mtx, gpc, atEntry>>

refVars == <<m_refCnt, deletes, deleters, rpc, refCnt, nAddRef, nRelease, zeroed, late, lateOk>>

ptrVars == <<ptr, counts, freed, asg, op, nops>>

lockVars == <<latchOwner, sharedHeld, exHolder, monitorOff, lpc, attIdx, caller>>

vars == <<storeVars, filterVars, protoVars, snapVars, fieldVars, guardVars,
         refVars,
         ptrVars,
         lockVars>>

-----------------------------------------------------------------------------
(* Bounds of the model *)

MaxWrites == 2      \* write() calls per dumpData window
MaxDumps == 3       \* dumpData rounds per behaviour
MaxItems == 4       \* objects (databases, attachments, transactions, ...) per dump
MaxSnapshots == 2    \* snapshots started per behaviour
MaxReacquires == 1   \* re-acquisitions of a shared monitor lock per behaviour
MaxCalls == 3       \* create() calls per behaviour
MaxFields == 3      \* putField calls per behaviour
MaxChanges == 1     \* changes of the shared store per behaviour

-----------------------------------------------------------------------------
(* Layout constants *)

HeaderSize == 56        \* sizeof(MonitoringData::Header)
ElementSize == 12       \* sizeof(MonitoringData::Element): processId, localId, length
Alignment == 8          \* FB_ALIGNMENT, the granule of MEM_ALIGN
DEFAULT_SIZE == 8192    \* initial mapping length and growth quantum
MONITOR_VERSION == 3    \* layout version stamped into the header

\* Database instances that map the region: (process id, dbb_monitoring_id).
Instances == {1, 2, 3}
PidOf == <<1, 1, 2>>
LidOf == <<1, 2, 1>>
Pids == {PidOf[i] : i \in Instances}

(* Workloads.  insts: the instances that run; lengths: the lengths of the  *)
(* buffers handed to write(); mortal: the processes that may end while     *)
(* their elements are in the store.  The first has three contributors, two *)
(* of them in one process, and dead processes to collect; the second has   *)
(* records large enough to fill the mapping to its last byte (56 + 8136 =  *)
(* 8192, 8192 + 8192 = 16384) and to outgrow it; the third is the second  *)
(* in a build without HAVE_OBJECT_MAP; the last two find a region that an  *)
(* engine of another layout version has created, in a release build and in *)
(* a DEV_BUILD.  version is header.mhb_version as the creator stamped it.  *)
WideProfile ==
    [insts |-> {1, 2, 3}, lengths |-> {5}, mortal |-> {1, 2},
     version |-> MONITOR_VERSION, devBuild |-> FALSE, objectMap |-> TRUE]

GrowProfile ==
    [insts |-> {1, 3}, lengths |-> {60, 8120}, mortal |-> {},
     version |-> MONITOR_VERSION, devBuild |-> FALSE, objectMap |-> TRUE]

Profiles ==
    { WideProfile,
      GrowProfile,
      [GrowProfile EXCEPT !.objectMap = FALSE],
      [GrowProfile EXCEPT !.lengths = {5}, !.version = MONITOR_VERSION - 1],
      [GrowProfile EXCEPT !.lengths = {5}, !.version = MONITOR_VERSION - 1,
                          !.devBuild = TRUE] }

NoRead == [done |-> FALSE]

-----------------------------------------------------------------------------
(* Helpers *)

FB_ALIGN(n, b) == ((n + b - 1) \div b) * b

alignOffset(unaligned) == FB_ALIGN(unaligned, Alignment)

FirstOffset == alignOffset(HeaderSize)

\* Bytes an element occupies in the store.
ElemSize(e) == alignOffset(ElementSize + e.length)

RECURSIVE SumSizes(_, _)
SumSizes(s, n) == IF n = 0 THEN 0 ELSE SumSizes(s, n - 1) + ElemSize(s[n])

\* Offset of the k-th element (k = Len(s) + 1: the first byte after the last one).
OffsetOf(s, k) == FirstOffset + SumSizes(s, k - 1)

TiledEnd(s) == OffsetOf(s, Len(s) + 1)

\* The element that starts at byte offset off; 0 when none does.
IndexAt(s, off) ==
    IF \E k \in 1..Len(s) : OffsetOf(s, k) = off
    THEN CHOOSE k \in 1..Len(s) : OffsetOf(s, k) = off
    ELSE 0

\* memmove(ptr, ptr + length, used - offset - length) over the k-th element.
RemoveAt(s, k) == SubSeq(s, 1, k - 1) \o SubSeq(s, k + 1, Len(s))

RECURSIVE ChunkBytes(_)
ChunkBytes(d) == IF d = <<>> THEN 0 ELSE d[1].len + ChunkBytes(Tail(d))

IsOwn(e, i) == e.processId = PidOf[i] /\ e.localId = LidOf[i]

Range(s) == {s[k] : k \in 1..Len(s)}


-----------------------------------------------------------------------------
(* MonitoringData::ensureSpace.  objectMap says whether the build has      *)
(* HAVE_OBJECT_MAP; remapOk is what remapFile() answers when it is called. *)
(* The result says whether the call raised and what (the status vector     *)
(* remapFile filled, or isc_montabexh), whether remapFile was called, and  *)
(* the new header.allocated and sh_mem_length_mapped.                      *)

\* A plausible slip: the region is remapped but header.allocated keeps its value.
ensureSpaceStaleHeader(u, a, m, length, remapOk, objectMap) ==
    LET newSize == u + length
    IN  IF newSize > a
        THEN IF objectMap
             THEN IF remapOk
                  THEN [raised |-> FALSE, error |-> "none", remapped |-> TRUE,
                        allocated |-> a,
                        mapped |-> FB_ALIGN(newSize, DEFAULT_SIZE)]
                  ELSE [raised |-> TRUE, error |-> "statusVector", remapped |-> TRUE,
                        allocated |-> a, mapped |-> m]
             ELSE [raised |-> TRUE, error |-> "isc_montabexh", remapped |-> FALSE,
                   allocated |-> a, mapped |-> m]
        ELSE [raised |-> FALSE, error |-> "none", remapped |-> FALSE,
              allocated |-> a, mapped |-> m]

\* A plausible slip: the test of newSize against header.allocated is missing.
ensureSpaceNoTest(u, a, m, length, remapOk, objectMap) ==
    LET newSize == u + length
        grown == IF newSize > a THEN FB_ALIGN(newSize, DEFAULT_SIZE) ELSE a
    IN  IF objectMap
        THEN IF remapOk
             THEN [raised |-> FALSE, error |-> "none", remapped |-> TRUE,
                   allocated |-> grown, mapped |-> grown]
             ELSE [raised |-> TRUE, error |-> "statusVector", remapped |-> TRUE,
                   allocated |-> a, mapped |-> m]
        ELSE [raised |-> TRUE, error |-> "isc_montabexh", remapped |-> FALSE,
              allocated |-> a, mapped |-> m]

\* A plausible slip: the requested length is aligned instead of newSize.
ensureSpaceAlignsLength(u, a, m, length, remapOk, objectMap) ==
    LET newSize == u + length
    IN  IF newSize > a
        THEN IF objectMap
             THEN IF remapOk
                  THEN [raised |-> FALSE, error |-> "none", remapped |-> TRUE,
                        allocated |-> FB_ALIGN(length, DEFAULT_SIZE),
                        mapped |-> FB_ALIGN(length, DEFAULT_SIZE)]
                  ELSE [raised |-> TRUE, error |-> "statusVector", remapped |-> TRUE,
                        allocated |-> a, mapped |-> m]
             ELSE [raised |-> TRUE, error |-> "isc_montabexh", remapped |-> FALSE,
                   allocated |-> a, mapped |-> m]
        ELSE [raised |-> FALSE, error |-> "none", remapped |-> FALSE,
              allocated |-> a, mapped |-> m]

ensureSpace(u, a, m, length, remapOk, objectMap) ==
    LET newSize == u + length
    IN  IF newSize > a
        THEN IF objectMap
             THEN IF remapOk
                  THEN [raised |-> FALSE, error |-> "none", remapped |-> TRUE,
                        allocated |-> FB_ALIGN(newSize, DEFAULT_SIZE),
                        mapped |-> FB_ALIGN(newSize, DEFAULT_SIZE)]
                  ELSE [raised |-> TRUE, error |-> "statusVector", remapped |-> TRUE,
                        allocated |-> a, mapped |-> m]
             ELSE [raised |-> TRUE, error |-> "isc_montabexh", remapped |-> FALSE,
                   allocated |-> a, mapped |-> m]
        ELSE [raised |-> FALSE, error |-> "none", remapped |-> FALSE,
              allocated |-> a, mapped |-> m]

\* A plausible slip: the loop stops one element short of header.used.
RECURSIVE cleanupLoopShort(_, _, _, _)
cleanupLoopShort(s, u, offset, me) ==
    LET k == IndexAt(s, offset)
    IN  IF k = 0 \/ offset + ElemSize(s[k]) >= u
        THEN [elems |-> s, used |-> u, bad |-> FALSE]
        ELSE LET length == ElemSize(s[k])
             IN  IF IsOwn(s[k], me)
                 THEN cleanupLoopShort(RemoveAt(s, k), u - length, offset, me)
                 ELSE cleanupLoopShort(s, u, offset + length, me)

(* The loop of MonitoringData::cleanup over the store s with header.used   *)
(* u, for instance me, resumed at byte offset.                             *)
RECURSIVE cleanupLoop(_, _, _, _)
cleanupLoop(s, u, offset, me) ==
    IF offset >= u
    THEN [elems |-> s, used |-> u, bad |-> FALSE]
    ELSE LET k == IndexAt(s, offset)
         IN  IF k = 0
             THEN [elems |-> s, used |-> u, bad |-> TRUE]
             ELSE LET length == ElemSize(s[k])
                  IN  IF IsOwn(s[k], me)
                      THEN cleanupLoop(RemoveAt(s, k), u - length, offset, me)
                      ELSE cleanupLoop(s, u, offset + length, me)

(* First pass of MonitoringData::read: compacts the store and sums the     *)
(* payload lengths; self is self_dbb_offset, size is resultSize.           *)
RECURSIVE readPass1(_, _, _, _, _, _)
readPass1(s, u, offset, self, size, me) ==
    IF offset >= u
    THEN [elems |-> s, used |-> u, self |-> self, size |-> size, bad |-> FALSE]
    ELSE LET k == IndexAt(s, offset)
         IN  IF k = 0
             THEN [elems |-> s, used |-> u, self |-> self, size |-> size, bad |-> TRUE]
             ELSE LET element == s[k]
                      length == ElemSize(element)
                      self2 == IF IsOwn(element, me) THEN offset ELSE self
                  IN  IF alive[element.processId]
                      THEN readPass1(s, u, offset + length, self2,
                                     size + element.length, me)
                      ELSE readPass1(RemoveAt(s, k), u - length, offset, self2,
                                     size, me)

(* Second pass of MonitoringData::read, the loop over the elements other   *)
(* than the one at self_dbb_offset; buf is what bufferPtr has passed.      *)
RECURSIVE readPass2(_, _, _, _, _)
readPass2(s, u, offset, self, buf) ==
    IF offset >= u
    THEN [buffer |-> buf, bad |-> FALSE]
    ELSE LET k == IndexAt(s, offset)
         IN  IF k = 0
             THEN [buffer |-> buf, bad |-> TRUE]
             ELSE readPass2(s, u, offset + ElemSize(s[k]), self,
                            IF offset # self THEN buf \o s[k].data ELSE buf)

(* A plausible slip: self_dbb_offset is taken from the store as it was     *)
(* before the first pass compacted it.                                     *)
readStoreStale(s, u, size0, me) ==
    LET p1 == readPass1(s, u, FirstOffset, 0, size0, me)
        self == IF \E j \in 1..Len(s) : IsOwn(s[j], me)
                THEN OffsetOf(s, CHOOSE j \in 1..Len(s) : IsOwn(s[j], me))
                ELSE 0
        k == IndexAt(p1.elems, self)
        own == IF k = 0 THEN <<>> ELSE p1.elems[k].data
        p2 == readPass2(p1.elems, p1.used, FirstOffset, self, own)
    IN  [elems |-> p1.elems, used |-> p1.used,
         self_dbb_offset |-> self, resultSize |-> p1.size,
         buffer |-> p2.buffer,
         bad |-> p1.bad \/ p2.bad \/ k = 0]

\* A plausible slip: the first pass moves the elements but keeps header.used.
readStoreKeepsUsed(s, u, size0, me) ==
    LET p1 == readPass1(s, u, FirstOffset, 0, size0, me)
        k == IndexAt(p1.elems, p1.self)
        own == IF k = 0 THEN <<>> ELSE p1.elems[k].data
        p2 == readPass2(p1.elems, p1.used, FirstOffset, p1.self, own)
    IN  [elems |-> p1.elems, used |-> u,
         self_dbb_offset |-> p1.self, resultSize |-> p1.size,
         buffer |-> p2.buffer,
         bad |-> p1.bad \/ p2.bad \/ k = 0]

(* MonitoringData::read for instance me on store (s, u), resultSize        *)
(* starting at size0.  With self_dbb_offset = 0 the assertion fails and a  *)
(* release build copies header bytes: the buffer is then garbage.          *)
readStore(s, u, size0, me) ==
    LET p1 == readPass1(s, u, FirstOffset, 0, size0, me)
        k == IndexAt(p1.elems, p1.self)
        own == IF k = 0 THEN <<>> ELSE p1.elems[k].data
        p2 == readPass2(p1.elems, p1.used, FirstOffset, p1.self, own)
    IN  [elems |-> p1.elems, used |-> p1.used,
         self_dbb_offset |-> p1.self, resultSize |-> p1.size,
         buffer |-> p2.buffer,
         bad |-> p1.bad \/ p2.bad \/ k = 0]


-----------------------------------------------------------------------------
(* The store operations as steps of an instance's thread.                  *)
(*                                                                         *)
(* pc: "closed"    before the MonitoringData constructor                   *)
(*     "aborted"   the constructor's fb_assert ended the process           *)
(*     "idle"      no store operation in progress                          *)
(*     "cleanup"   dumpData: Guard constructed, before cleanup()           *)
(*     "setup"     dumpData: cleanup() returned, before Writer's setup()   *)
(*     "write"     dumpData: between the Writer's putRecord calls          *)
(*     "unwind"    dumpData: setup()/write() raised, Guard being destroyed *)
(*     "snapwait"  constructor: own dumpData done, before the read Guard;   *)
(*                 a blockingAst of the instance may call dumpData meanwhile *)
(*     "read"      constructor: Guard constructed, before read()           *)
(*     "rrelease"  constructor: read() returned, Guard being destroyed     *)
(*     "dcleanup"  ~MonitoringData: Guard constructed, before cleanup()    *)
(*     "gone"      the MonitoringData object is destroyed                  *)

Critical == {"cleanup", "setup", "write", "unwind", "read", "rrelease", "dcleanup"}

Running(i) == alive[PidOf[i]]

\* mutexLock() on the region mutex by instance i: waits while it is held.
mutexLock(i) == mutex = 0 /\ mutex' = i

mutexUnlock == mutex' = 0

NoCleanup == [by |-> 0, removed |-> 0]

\* A plausible slip: the answer of remapFile is not tested.
acquireUntested(a, m, ok1, ok2, objectMap) ==
    IF a > m
    THEN IF objectMap
         THEN [raised |-> FALSE, mapped |-> IF ok1 \/ ok2 THEN a ELSE m]
         ELSE [raised |-> TRUE, mapped |-> m]
    ELSE [raised |-> FALSE, mapped |-> m]

(* MonitoringData::acquire after mutexLock, for a header.allocated of a    *)
(* and a mapped length of m; ok1 and ok2 are the answers of the two        *)
(* remapFile calls of a build with HAVE_OBJECT_MAP.                        *)
acquire(a, m, ok1, ok2, objectMap) ==
    IF a > m
    THEN IF objectMap
         THEN [raised |-> ~ok2, mapped |-> IF ok1 \/ ok2 THEN a ELSE m]
         ELSE [raised |-> TRUE, mapped |-> m]
    ELSE [raised |-> FALSE, mapped |-> m]

(* Guard's constructor for instance i: mutexLock, then acquire's remap.    *)
(* When acquire raises, the Guard is never constructed, its destructor     *)
(* never runs, and the thread goes to onError with the mutex still locked. *)
GuardEnter(i, onOk, onError) ==
    /\ mutexLock(i)
    /\ \E ok1, ok2 \in (IF allocated > mapped[i] THEN BOOLEAN ELSE {TRUE}) :
          LET r == acquire(allocated, mapped[i], ok1, ok2, profile.objectMap)
          IN  /\ mapped' = [mapped EXCEPT ![i] = r.mapped]
              /\ pc' = [pc EXCEPT ![i] = IF r.raised THEN onError ELSE onOk]

\* fb_assert(condition): ends the process in a DEV_BUILD, nothing otherwise.
fb_assert(condition, devBuild) == devBuild /\ ~condition

\* header.mhb_version of the region the instances find.
mhb_version == profile.version

(* The MonitoringData constructor of instance i on the existing region:    *)
(* mapFile of DEFAULT_SIZE, which calls initialize(false), then the        *)
(* fb_assert on the layout version.                                        *)
Open(i) ==
    /\ Running(i)
    /\ pc[i] = "closed"
    /\ mapped' = [mapped EXCEPT ![i] = DEFAULT_SIZE]
    /\ IF fb_assert(mhb_version = MONITOR_VERSION, profile.devBuild)
       THEN pc' = [pc EXCEPT ![i] = "aborted"]
       ELSE pc' = [pc EXCEPT ![i] = "idle"]
    /\ UNCHANGED <<mutex, used, allocated, elems, corrupt, woffset, alive, rd,
                   nwrites, ndumps, fileRemoved, profile, ctorDump, cleaned, space>>

\* A plausible slip: dumpData without its MonitoringData::Guard.
AcquireDumpNoGuard(i) ==
    /\ Running(i)
    /\ pc[i] = "idle"
    /\ ndumps < MaxDumps
    /\ pc' = [pc EXCEPT ![i] = "cleanup"]
    /\ ndumps' = ndumps + 1
    /\ UNCHANGED <<mutex, used, allocated, elems, corrupt, woffset, mapped, alive,
                   rd, nwrites, fileRemoved, profile, ctorDump, cleaned, space>>

\* dumpData: the MonitoringData::Guard at its head.
AcquireDump(i) ==
    /\ Running(i)
    /\ pc[i] \in {"idle", "snapwait"}
    /\ ndumps < MaxDumps
    /\ GuardEnter(i, "cleanup", pc[i])
    /\ ndumps' = ndumps + 1
    /\ UNCHANGED <<used, allocated, elems, corrupt, woffset, alive, rd, nwrites,
                   fileRemoved, profile, ctorDump, cleaned, space>>

\* MonitoringData::cleanup by instance i.
cleanup(i) ==
    LET r == cleanupLoop(elems, used, FirstOffset, i)
    IN  /\ elems' = r.elems
        /\ used' = r.used
        /\ corrupt' = (corrupt \/ r.bad)

\* A plausible slip: dumpData goes on to the Writer without cleanup().
CleanupSkipped(i) ==
    /\ Running(i)
    /\ pc[i] = "cleanup"
    /\ cleaned' = [by |-> i, removed |-> 0]
    /\ pc' = [pc EXCEPT ![i] = "setup"]
    /\ UNCHANGED <<mutex, used, allocated, elems, corrupt, woffset, mapped, alive,
                   rd, nwrites, ndumps, fileRemoved, profile, ctorDump, space>>

\* dumpData: dbb_monitoring_data->cleanup().
Cleanup(i) ==
    /\ Running(i)
    /\ pc[i] = "cleanup"
    /\ cleanup(i)
    /\ cleaned' = [by |-> i, removed |-> Len(elems) - Len(elems')]
    /\ pc' = [pc EXCEPT ![i] = "setup"]
    /\ UNCHANGED <<mutex, allocated, woffset, mapped, alive, rd, nwrites, ndumps,
                   fileRemoved, profile, ctorDump, space>>

\* What remapFile may answer to an ensureSpace(length) on the current header.
RemapAnswers(length) ==
    IF used + length > allocated /\ profile.objectMap THEN BOOLEAN ELSE {TRUE}

NoSpace == [called |-> FALSE]

\* The ensureSpace(length) call instance i makes on the current header, and its result.
SpaceCall(i, length, sp) ==
    [called |-> TRUE, length |-> length, used |-> used, allocated |-> allocated,
     mapped |-> mapped[i], result |-> sp]

\* A plausible slip: cleanup() is called once more, after the Writer's setup().
SetupThenCleanup(i) ==
    /\ Running(i)
    /\ pc[i] = "setup"
    /\ \E remapOk \in RemapAnswers(ElementSize) :
          LET sp == ensureSpace(used, allocated, mapped[i], ElementSize, remapOk,
                                profile.objectMap)
              added == Append(elems, [processId |-> PidOf[i], localId |-> LidOf[i],
                                      length |-> 0, data |-> <<>>])
              r == cleanupLoop(added, used + alignOffset(ElementSize), FirstOffset, i)
          IN  /\ space' = [space EXCEPT ![i] = SpaceCall(i, ElementSize, sp)]
              /\ IF sp.raised
                 THEN /\ pc' = [pc EXCEPT ![i] = "unwind"]
                      /\ UNCHANGED <<used, allocated, elems, corrupt, woffset, mapped>>
                 ELSE /\ allocated' = sp.allocated
                      /\ mapped' = [mapped EXCEPT ![i] = sp.mapped]
                      /\ woffset' = [woffset EXCEPT ![i] = used]
                      /\ elems' = r.elems
                      /\ used' = r.used
                      /\ corrupt' = (corrupt \/ r.bad)
                      /\ pc' = [pc EXCEPT ![i] = "write"]
    /\ nwrites' = [nwrites EXCEPT ![i] = 0]
    /\ UNCHANGED <<mutex, alive, rd, ndumps, fileRemoved, profile, ctorDump, cleaned>>

\* MonitoringData::setup, called by the Writer that dumpData constructs.
Setup(i) ==
    /\ Running(i)
    /\ pc[i] = "setup"
    /\ \E remapOk \in RemapAnswers(ElementSize) :
          LET sp == ensureSpace(used, allocated, mapped[i], ElementSize, remapOk,
                                profile.objectMap)
          IN  /\ space' = [space EXCEPT ![i] = SpaceCall(i, ElementSize, sp)]
              /\ IF sp.raised
                 THEN /\ pc' = [pc EXCEPT ![i] = "unwind"]
                      /\ UNCHANGED <<used, allocated, elems, corrupt, woffset, mapped>>
                 ELSE /\ allocated' = sp.allocated
                      /\ mapped' = [mapped EXCEPT ![i] = sp.mapped]
                      /\ woffset' = [woffset EXCEPT ![i] = used]
                      /\ elems' = Append(elems, [processId |-> PidOf[i],
                                                 localId |-> LidOf[i],
                                                 length |-> 0, data |-> <<>>])
                      /\ used' = used + alignOffset(ElementSize)
                      /\ corrupt' = (corrupt \/ used # TiledEnd(elems))
                      /\ pc' = [pc EXCEPT ![i] = "write"]
    /\ nwrites' = [nwrites EXCEPT ![i] = 0]
    /\ UNCHANGED <<mutex, alive, rd, ndumps, fileRemoved, profile, ctorDump, cleaned>>

\* A plausible slip: header.used grows by the raw length of the buffer.
writeRaw(i, offset, length) ==
    LET k == IndexAt(elems, offset)
    IN  IF k = 0
        THEN /\ corrupt' = TRUE
             /\ UNCHANGED <<elems, used>>
        ELSE LET element == elems[k]
             IN  /\ elems' = [elems EXCEPT ![k] =
                        [element EXCEPT !.length = element.length + length,
                                        !.data = Append(element.data,
                                                     [src |-> i, len |-> length])]]
                 /\ used' = used + length
                 /\ corrupt' = (corrupt \/ k # Len(elems))

(* MonitoringData::write(offset, length, buffer) on the store: the element *)
(* at offset takes length more payload bytes, header.used grows by the     *)
(* change of its aligned size.  A write into an element that is not the    *)
(* last one runs over its successor.                                       *)
write(i, offset, length) ==
    LET k == IndexAt(elems, offset)
    IN  IF k = 0
        THEN /\ corrupt' = TRUE
             /\ UNCHANGED <<elems, used>>
        ELSE LET element == elems[k]
                 previous == alignOffset(ElementSize + element.length)
                 current == alignOffset(ElementSize + element.length + length)
             IN  /\ elems' = [elems EXCEPT ![k] =
                        [element EXCEPT !.length = element.length + length,
                                        !.data = Append(element.data,
                                                     [src |-> i, len |-> length])]]
                 /\ used' = used + (current - previous)
                 /\ corrupt' = (corrupt \/ k # Len(elems))

\* dumpData: one Writer::putRecord, which is one write() at the Writer's offset.
Write(i) ==
    /\ Running(i)
    /\ pc[i] = "write"
    /\ nwrites[i] < MaxWrites
    /\ \E length \in profile.lengths :
       \E remapOk \in RemapAnswers(length) :
          LET sp == ensureSpace(used, allocated, mapped[i], length, remapOk,
                                profile.objectMap)
          IN  /\ space' = [space EXCEPT ![i] = SpaceCall(i, length, sp)]
              /\ IF sp.raised
                 THEN /\ pc' = [pc EXCEPT ![i] = "unwind"]
                      /\ UNCHANGED <<used, allocated, elems, corrupt, mapped, nwrites>>
                 ELSE /\ allocated' = sp.allocated
                      /\ mapped' = [mapped EXCEPT ![i] = sp.mapped]
                      /\ write(i, woffset[i], length)
                      /\ nwrites' = [nwrites EXCEPT ![i] = nwrites[i] + 1]
                      /\ pc' = pc
    /\ UNCHANGED <<mutex, woffset, alive, rd, ndumps, fileRemoved, profile, ctorDump, cleaned>>

(* dumpData returns, or an error leaves it: the Guard's destructor         *)
(* releases the mutex.  A dumpData that returned normally was called by    *)
(* blockingAst (back to "idle") or by the constructor, which goes on to    *)
(* read the store ("snapwait").  A dumpData called by blockingAst while    *)
(* the constructor waits leaves the constructor where it was, whether it   *)
(* returned or raised.  The Writer goes out of scope.                      *)
ReleaseDump(i) ==
    /\ Running(i)
    /\ \/ /\ pc[i] = "write"
          /\ ctorDump[i] = "none"
          /\ \E to \in {"idle", "snapwait"} :
                /\ pc' = [pc EXCEPT ![i] = to]
                /\ ctorDump' = [ctorDump EXCEPT ![i] =
                                   IF to = "snapwait" THEN "own" ELSE "none"]
       \/ /\ pc[i] = "write"
          /\ ctorDump[i] # "none"
          /\ pc' = [pc EXCEPT ![i] = "snapwait"]
          /\ ctorDump' = [ctorDump EXCEPT ![i] = "ast"]
       \/ /\ pc[i] = "unwind"
          /\ ctorDump[i] = "none"
          /\ pc' = [pc EXCEPT ![i] = "idle"]
          /\ ctorDump' = ctorDump
       \/ /\ pc[i] = "unwind"
          /\ ctorDump[i] # "none"
          /\ pc' = [pc EXCEPT ![i] = "snapwait"]
          /\ ctorDump' = [ctorDump EXCEPT ![i] = "astFailed"]
    /\ mutexUnlock
    /\ woffset' = [woffset EXCEPT ![i] = 0]
    /\ nwrites' = [nwrites EXCEPT ![i] = 0]
    /\ cleaned' = NoCleanup
    /\ space' = [space EXCEPT ![i] = NoSpace]
    /\ UNCHANGED <<used, allocated, elems, corrupt, mapped, alive, rd, ndumps,
                   fileRemoved, profile>>

\* The constructor's MonitoringData::Guard around read().
AcquireRead(i) ==
    /\ Running(i)
    /\ pc[i] = "snapwait"
    /\ GuardEnter(i, "read", "idle")
    /\ ctorDump' = [ctorDump EXCEPT ![i] = IF pc'[i] = "read" THEN @ ELSE "none"]
    /\ UNCHANGED <<used, allocated, elems, corrupt, woffset, alive, rd, nwrites,
                   ndumps, fileRemoved, profile, cleaned, space>>

(* The constructor's read(pool, dataSize) with dataSize = 0.  rd keeps     *)
(* the result, with the store and the liveness answers the call saw.       *)
Read(i) ==
    /\ Running(i)
    /\ pc[i] = "read"
    /\ LET r == readStore(elems, used, 0, i)
       IN  /\ elems' = r.elems
           /\ used' = r.used
           /\ corrupt' = corrupt
           /\ rd' = [rd EXCEPT ![i] =
                  [done |-> TRUE, buffer |-> r.buffer, resultSize |-> r.resultSize,
                   self_dbb_offset |-> r.self_dbb_offset, bad |-> r.bad,
                   before |-> elems, usedBefore |-> used, live |-> alive]]
    /\ pc' = [pc EXCEPT ![i] = "rrelease"]
    /\ UNCHANGED <<mutex, allocated, woffset, mapped, alive, nwrites, ndumps,
                   fileRemoved, profile, ctorDump, cleaned, space>>

\* The read Guard's destructor; the buffer goes to the parser.
ReleaseRead(i) ==
    /\ Running(i)
    /\ pc[i] = "rrelease"
    /\ mutexUnlock
    /\ pc' = [pc EXCEPT ![i] = "idle"]
    /\ rd' = [rd EXCEPT ![i] = NoRead]
    /\ ctorDump' = [ctorDump EXCEPT ![i] = "none"]
    /\ UNCHANGED <<used, allocated, elems, corrupt, woffset, mapped, alive, nwrites,
                   ndumps, fileRemoved, profile, cleaned, space>>

\* ~MonitoringData: the Guard at the head of its scope.
AcquireDestroy(i) ==
    /\ Running(i)
    /\ pc[i] = "idle"
    /\ GuardEnter(i, "dcleanup", "gone")
    /\ UNCHANGED <<used, allocated, elems, corrupt, woffset, alive, rd, nwrites,
                   ndumps, fileRemoved, profile, ctorDump, cleaned, space>>

\* A plausible slip: ~MonitoringData tests header.used before its cleanup().
DestroyTestFirst(i) ==
    /\ Running(i)
    /\ pc[i] = "dcleanup"
    /\ cleanup(i)
    /\ fileRemoved' = [fileRemoved EXCEPT ![i] =
                          IF used = HeaderSize THEN "removed" ELSE "kept"]
    /\ mutexUnlock
    /\ pc' = [pc EXCEPT ![i] = "gone"]
    /\ UNCHANGED <<allocated, woffset, mapped, alive, rd, nwrites, ndumps, profile, ctorDump,
                   cleaned, space>>

(* ~MonitoringData: cleanup(), removeMapFile() when header.used equals     *)
(* sizeof(Header), the Guard's destructor, unmapFile().  fileRemoved keeps *)
(* what each destructor did with the mapped file.                          *)
Destroy(i) ==
    /\ Running(i)
    /\ pc[i] = "dcleanup"
    /\ cleanup(i)
    /\ fileRemoved' = [fileRemoved EXCEPT ![i] =
                          IF used' = HeaderSize THEN "removed" ELSE "kept"]
    /\ mutexUnlock
    /\ pc' = [pc EXCEPT ![i] = "gone"]
    /\ UNCHANGED <<allocated, woffset, mapped, alive, rd, nwrites, ndumps, profile, ctorDump,
                   cleaned, space>>

(* A process ends without running its destructors; from then on            *)
(* ISC_check_process_existence answers FALSE for it.  (A process that      *)
(* dies inside the Guard is left to the mutex implementation.)             *)
Crash(p) ==
    /\ p \in profile.mortal
    /\ alive[p]
    /\ \A i \in Instances : PidOf[i] = p => pc[i] \notin Critical
    /\ alive' = [alive EXCEPT ![p] = FALSE]
    /\ UNCHANGED <<mutex, used, allocated, elems, corrupt, pc, woffset, mapped, rd,
                   nwrites, ndumps, fileRemoved, profile, ctorDump, cleaned, space>>

(* The region as MonitoringData::initialize(true) of its creator left it;  *)
(* no instance has constructed its MonitoringData yet.                     *)
InitStore ==
    /\ mutex = 0
    /\ used = alignOffset(HeaderSize)
    /\ allocated = DEFAULT_SIZE
    /\ elems = <<>>
    /\ corrupt = FALSE
    /\ pc = [i \in Instances |-> "closed"]
    /\ woffset = [i \in Instances |-> 0]
    /\ mapped = [i \in Instances |-> 0]
    /\ alive = [p \in Pids |-> TRUE]
    /\ rd = [i \in Instances |-> NoRead]
    /\ nwrites = [i \in Instances |-> 0]
    /\ ndumps = 0
    /\ fileRemoved = [i \in Instances |-> "untested"]
    /\ profile \in Profiles
    /\ cleaned = NoCleanup
    /\ space = [i \in Instances |-> NoSpace]
    /\ ctorDump = [i \in Instances |-> "none"]

\* The variables of the parse loop while another specification runs.
FilterParked ==
    /\ dump = <<>>
    /\ requester = [databaseName |-> <<>>, userName |-> <<>>, locksmith |-> FALSE]
    /\ parsed = FALSE
    /\ stored = <<>>
    /\ flags = [dbb_processed |-> FALSE, dbb_allowed |-> FALSE, att_allowed |-> FALSE]

\* The database instances of the monitor lock round.
Dbbs == {1, 2, 3}

NoAst == [ran |-> FALSE, failed |-> FALSE, returned |-> 0, released |-> FALSE, flagged |-> FALSE,
          fresh |-> FALSE]

\* Every instance attached: its shared monitor lock held, nothing running.
InitProto ==
    /\ dbb_monitor_lock = [d \in Dbbs |-> "SR"]
    /\ DBB_monitor_off = [d \in Dbbs |-> FALSE]
    /\ dbb_mon_sync = [d \in Dbbs |-> "free"]
    /\ temp_lock = [d \in Dbbs |-> "none"]
    /\ wpc = [d \in Dbbs |-> "idle"]
    /\ apc = [d \in Dbbs |-> "none"]
    /\ astFailed = [d \in Dbbs |-> FALSE]
    /\ lastAst = [d \in Dbbs |-> NoAst]
    /\ nsnap = 0
    /\ heldAtRequest = [d \in Dbbs |-> {}]
    /\ publishedSince = [d \in Dbbs |-> {}]
    /\ nreacq = 0
    /\ astFresh = [d \in Dbbs |-> FALSE]

\* The variables of the monitor lock round while another specification runs.
ProtoParked == InitProto

\* The transactions of the snapshot model, and the empty id map.
Transactions == {1, 2}

NoIds == [g \in {} |-> 0]

NoCreate == [snapshot |-> 0, built |-> FALSE]

\* No transaction has asked for a snapshot yet.
InitSnap ==
    /\ tra_db_snapshot = [t \in Transactions |-> 0]
    /\ tpc = [t \in Transactions |-> "idle"]
    /\ rounds = [t \in Transactions |-> 0]
    /\ storeVersion = 0
    /\ rows = [t \in Transactions |-> 0]
    /\ lastCreate = [t \in Transactions |-> NoCreate]
    /\ idMap = [t \in Transactions |-> NoIds]
    /\ idCounter = [t \in Transactions |-> 0]
    /\ idLog = [t \in Transactions |-> <<>>]
    /\ ncalls = 0
    /\ nfields = 0

\* The variables of the snapshot object while another specification runs.
SnapParked == InitSnap

NoDesc == [made |-> FALSE]

\* The variables of the string field while another specification runs.
FieldParked ==
    /\ field = [type |-> "VALUE_STRING", data |-> <<>>]
    /\ att_charset = "CS_METADATA"
    /\ to_charset = "CS_METADATA"
    /\ from_desc = NoDesc

\* The threads and the two mutexes handed to MutexCheckoutGuard.
Threads == {1, 2}

Mutexes == {"mtxCout", "mtxLock"}

NoEntry == [m \in Mutexes |-> 0]

\* Both mutexes constructed (lockCount 0), no thread inside a guard.
InitGuard ==
    /\ mtx = [m \in Mutexes |-> [owner |-> 0, lockCount |-> 0]]
    /\ gpc = [t \in Threads |-> "run"]
    /\ atEntry = [t \in Threads |-> NoEntry]

\* The variables of the mutex guards while another specification runs.
GuardParked == InitGuard

\* The object as RefCounted::RefCounted() leaves it; no call running.
InitRef ==
    /\ m_refCnt = 0
    /\ deletes = 0
    /\ deleters = {}
    /\ rpc = [t \in Threads |-> "idle"]
    /\ refCnt = [t \in Threads |-> 0]
    /\ nAddRef = 0
    /\ nRelease = 0
    /\ zeroed = FALSE
    /\ late = FALSE
    /\ lateOk = FALSE

\* The variables of the counted object while another specification runs.
RefParked == InitRef

\* The counted objects, the places a RefPtr may be constructed in, NULL.
Objects == {1, 2, 3}

Slots == {1, 2, 3}

NULL == 0

\* The place holds no RefPtr.
NoPtr == -1

NoAsg == [stage |-> "none", slot |-> 0, p |-> NULL, old |-> NULL]

NoOp == [kind |-> "none", slot |-> 0, p |-> NULL]

\* Three objects just constructed (m_refCnt 0), no RefPtr yet.
InitPtr ==
    /\ ptr = [s \in Slots |-> NoPtr]
    /\ counts = [o \in Objects |-> 0]
    /\ freed = [o \in Objects |-> 0]
    /\ asg = NoAsg
    /\ op = NoOp
    /\ nops = 0

\* The variables of the RefPtr instances while another specification runs.
PtrParked == InitPtr

\* The threads of one process: 1 and 2 work for attachments 1 and 2, thread 3
\* is the one the lock manager calls blockingAst on (no attachment).
LockThreads == {1, 2, 3}

AttThreads == {1, 2}

AstThread == 3

AttLatch(k) == IF k = 1 THEN "att1" ELSE "att2"

Latches == {"dbb_mon_sync", "mutex", "att1", "att2"}

\* No thread inside the engine, every latch free; the process holds the
\* shared monitor lock.
InitLocks ==
    /\ latchOwner = [l \in Latches |-> 0]
    /\ sharedHeld = TRUE
    /\ exHolder = 0
    /\ monitorOff = FALSE
    /\ lpc = [t \in LockThreads |-> IF t = AstThread THEN "idle" ELSE "out"]
    /\ attIdx = [t \in LockThreads |-> 0]
    /\ caller = [t \in LockThreads |-> "none"]

\* The variables of the lock order while another specification runs.
LocksParked == InitLocks

\* A step of the shared region leaves the other parts alone.
StoreOnly == UNCHANGED <<filterVars, protoVars, snapVars, fieldVars, guardVars,
                          refVars,
                          ptrVars,
                          lockVars>>


NextStore ==
    \/ \E i \in profile.insts : Open(i) /\ StoreOnly
    \/ \E i \in profile.insts : AcquireDump(i) /\ StoreOnly
    \/ \E i \in profile.insts : Cleanup(i) /\ StoreOnly
    \/ \E i \in profile.insts : Setup(i) /\ StoreOnly
    \/ \E i \in profile.insts : Write(i) /\ StoreOnly
    \/ \E i \in profile.insts : ReleaseDump(i) /\ StoreOnly
    \/ \E i \in profile.insts : AcquireRead(i) /\ StoreOnly
    \/ \E i \in profile.insts : Read(i) /\ StoreOnly
    \/ \E i \in profile.insts : ReleaseRead(i) /\ StoreOnly
    \/ \E i \in profile.insts : AcquireDestroy(i) /\ StoreOnly
    \/ \E i \in profile.insts : Destroy(i) /\ StoreOnly
    \/ \E p \in Pids : Crash(p) /\ StoreOnly

\* The shared region as constructed; the parse and the lock round parked.
StoreInit == InitStore /\ FilterParked /\ ProtoParked /\ SnapParked /\ FieldParked /\ GuardParked /\ RefParked /\ PtrParked /\ LocksParked

SpecStore == StoreInit /\ [][NextStore]_vars


-----------------------------------------------------------------------------
(* Properties of the store (checked under SpecStore)                       *)

RECURSIVE Payloads(_)
Payloads(s) == IF s = <<>> THEN <<>> ELSE s[1].data \o Payloads(Tail(s))

RECURSIVE Lengths(_)
Lengths(s) == IF s = <<>> THEN 0 ELSE s[1].length + Lengths(Tail(s))

HasOwn(s, i) == \E k \in 1..Len(s) : IsOwn(s[k], i)

OwnIndex(s, i) == CHOOSE k \in 1..Len(s) : IsOwn(s[k], i)

\* The other elements of s whose process exists according to live, in store order.
LiveOthers(s, live, i) == SelectSeq(s, LAMBDA e : ~IsOwn(e, i) /\ live[e.processId])

(* C2: read() with resultSize = 0 and the caller's element present returns *)
(* the caller's payload, then the payload of every other element whose     *)
(* process exists, once each and in store order; resultSize is the sum of  *)
(* those payload lengths; and self_dbb_offset, as recorded by the first    *)
(* pass, is the offset of the caller's element in the compacted store.     *)
C2_ReadOwnFirstThenLive ==
    \A i \in Instances :
        (rd[i].done /\ HasOwn(rd[i].before, i)) =>
            LET b == rd[i].before
                own == b[OwnIndex(b, i)]
                others == LiveOthers(b, rd[i].live, i)
                k == IndexAt(elems, rd[i].self_dbb_offset)
            IN  /\ rd[i].buffer = own.data \o Payloads(others)
                /\ rd[i].resultSize = own.length + Lengths(others)
                /\ rd[i].resultSize = ChunkBytes(rd[i].buffer)
                /\ k # 0
                /\ IsOwn(elems[k], i)
                /\ elems[k] = own
                /\ ~rd[i].bad

(* C2 witness: a read() that found a dead process's element in front of    *)
(* the caller's own (so the own element moved during the first pass), and  *)
(* a live contributor besides the caller.                                  *)
C2_Witness ==
    \E i \in Instances :
        /\ rd[i].done
        /\ HasOwn(rd[i].before, i)
        /\ Len(rd[i].before) = 3
        /\ rd[i].self_dbb_offset < OffsetOf(rd[i].before, OwnIndex(rd[i].before, i))
        /\ Len(LiveOthers(rd[i].before, rd[i].live, i)) = 1
        /\ Len(rd[i].buffer) >= 2

(* C3: alignOffset(sizeof(Header)) <= used <= allocated in every state.    *)
C3_UsedWithinAllocated ==
    /\ alignOffset(HeaderSize) <= used
    /\ used <= allocated

(* C3 witness: the store has outgrown the initial mapping and a write has  *)
(* filled the grown mapping to its last byte.                              *)
C3_Witness ==
    /\ allocated > DEFAULT_SIZE
    /\ used = allocated
    /\ Len(elems) >= 2

(* C4: used is aligned and the elements tile the store: walking from       *)
(* alignOffset(sizeof(Header)) by aligned element sizes ends exactly on    *)
(* used, and no operation met bytes that are no element.                   *)
C4_ElementsTileUsed ==
    /\ used % Alignment = 0
    /\ used = TiledEnd(elems)
    /\ ~corrupt

(* C4 witness: two elements, one of them grown by two writes of which the  *)
(* second stayed within the padding of the first.                          *)
C4_Witness ==
    /\ Len(elems) >= 2
    /\ \E k \in 1..Len(elems) :
          /\ Len(elems[k].data) = 2
          /\ alignOffset(ElementSize + elems[k].data[1].len) = ElemSize(elems[k])

(* C5: whenever the region mutex is free, the store holds at most one      *)
(* element per (process_id, local_id).                                     *)
C5_OneElementPerInstance ==
    mutex = 0 =>
        \A j, k \in 1..Len(elems) :
            (elems[j].processId = elems[k].processId
                /\ elems[j].localId = elems[k].localId) => j = k

(* C5 witness: three publish rounds by three running instances have left   *)
(* two elements, so one instance has published again over its element.     *)
C5_Witness ==
    /\ mutex = 0
    /\ profile.insts = {1, 2, 3}
    /\ \A p \in Pids : alive[p]
    /\ \A i \in Instances : pc[i] = "idle"
    /\ ndumps >= 3
    /\ Len(elems) = 2
    /\ \A k \in 1..Len(elems) : elems[k].length > 0

(* C6 as claimed: after cleanup() by an instance of process P, no element  *)
(* with process_id = P remains.                                            *)
C6_CleanupRemovesWholeProcess ==
    \A i \in Instances :
        (pc[i] = "setup" /\ cleaned.by = i) =>
            \A k \in 1..Len(elems) : elems[k].processId # PidOf[i]

(* C6 amended: after cleanup() by the instance (P, L), no element with     *)
(* process_id = P and local_id = L remains.                                *)
C6_CleanupRemovesOwn ==
    \A i \in Instances :
        (pc[i] = "setup" /\ cleaned.by = i) =>
            \A k \in 1..Len(elems) : ~IsOwn(elems[k], i)

(* C6 witness: a cleanup() that removed the caller's element and left the  *)
(* element that the same process wrote under another local id.             *)
C6_Witness ==
    \E i \in Instances :
        /\ pc[i] = "setup"
        /\ cleaned.by = i
        /\ cleaned.removed = 1
        /\ \E k \in 1..Len(elems) :
              elems[k].processId = PidOf[i] /\ elems[k].localId # LidOf[i]

(* C9: an instance is at a store operation (setup, write, cleanup, read)   *)
(* only while it holds the region mutex; hence at most one instance is     *)
(* between acquire and release.                                            *)
C9_StoreOpsUnderMutex ==
    \A i \in Instances : pc[i] \in Critical => mutex = i

(* C9 witness: one instance is writing while another, whose dumpData is    *)
(* over, is waiting for the mutex to read.                                 *)
C9_Witness ==
    \E i, j \in Instances :
        /\ i # j
        /\ pc[i] = "write"
        /\ nwrites[i] >= 1
        /\ pc[j] = "snapwait"


-----------------------------------------------------------------------------
(* The dump: what the collectors write and the Reader yields.              *)
(*                                                                         *)
(* A record is [rid, fields]; a field is [id, data].  Strings are byte     *)
(* sequences.  Of each record the model keeps the fields the filter looks  *)
(* at and one more, in the order the collector stores them.                *)

DbNames == {<<1, 2>>, <<1>>}        \* "db", and "d", a proper prefix of it
UserNames == {<<7, 8>>, <<7>>}      \* "al", and "a", a proper prefix of it

ChildKinds == {"ctx", "tra", "call", "req"}

Other(id) == [id |-> id, data |-> <<0>>]

\* DatabaseSnapshot::putStatistics: one rel_mon_io_stats and one rel_mon_rec_stats record.
putStatistics ==
    << [rid |-> "rel_mon_io_stats", fields |-> <<Other("f_mon_io_stat_id")>>],
       [rid |-> "rel_mon_rec_stats", fields |-> <<Other("f_mon_rec_stat_id")>>] >>

\* DatabaseSnapshot::putMemoryUsage: one rel_mon_mem_usage record.
putMemoryUsage ==
    << [rid |-> "rel_mon_mem_usage", fields |-> <<Other("f_mon_mem_stat_id")>>] >>

\* DatabaseSnapshot::putDatabase: the database record, its statistics, its memory usage.
putDatabase(name) ==
    << [rid |-> "rel_mon_database",
        fields |-> << [id |-> "f_mon_db_name", data |-> name],
                      Other("f_mon_db_page_size") >>] >>
    \o putStatistics \o putMemoryUsage

\* DatabaseSnapshot::putAttachment: the attachment record, its statistics, its memory usage.
putAttachment(user) ==
    << [rid |-> "rel_mon_attachments",
        fields |-> << [id |-> "f_mon_att_user", data |-> user],
                      Other("f_mon_att_id") >>] >>
    \o putStatistics \o putMemoryUsage

\* DatabaseSnapshot::putContextVars, for one variable.
putContextVars ==
    << [rid |-> "rel_mon_ctx_vars",
        fields |-> <<Other("f_mon_ctx_var_att_id"), Other("f_mon_ctx_var_name")>>] >>

\* DatabaseSnapshot::putTransaction.
putTransaction ==
    << [rid |-> "rel_mon_transactions",
        fields |-> <<Other("f_mon_tra_id"), Other("f_mon_tra_att_id")>>] >>
    \o putStatistics \o putMemoryUsage

\* DatabaseSnapshot::putCall.
putCall ==
    << [rid |-> "rel_mon_calls",
        fields |-> <<Other("f_mon_call_id"), Other("f_mon_call_stmt_id")>>] >>
    \o putStatistics \o putMemoryUsage

\* DatabaseSnapshot::putRequest.
putRequest ==
    << [rid |-> "rel_mon_statements",
        fields |-> <<Other("f_mon_stmt_id"), Other("f_mon_stmt_att_id")>>] >>
    \o putStatistics \o putMemoryUsage

(* The objects the collectors of the contributing processes dump, in       *)
(* stream order.  dumpData starts every contribution with the database;    *)
(* dumpAttachment emits an attachment before what belongs to it.  Every    *)
(* putRecord is a write() of its own, and write() raises when ensureSpace  *)
(* cannot grow the region: whole = FALSE is a contribution whose dumpData  *)
(* was ended by that error right after the database record (blockingAst    *)
(* logs the error and the element stays in the store).                     *)
Items ==
    {[kind |-> "db", name |-> n, whole |-> w] : n \in DbNames, w \in BOOLEAN}
    \cup {[kind |-> "att", name |-> u, whole |-> TRUE] : u \in UserNames}
    \cup {[kind |-> k, name |-> <<>>, whole |-> TRUE] : k \in ChildKinds}

CollectorOrder(it) ==
    /\ it[1].kind = "db"
    /\ \A k \in 2..Len(it) :
          /\ it[k].kind \in ChildKinds => it[k - 1].kind # "db"
          /\ ~it[k - 1].whole => it[k].kind = "db"

ItemSeqs ==
    UNION {{it \in [1..n -> Items] : CollectorOrder(it)} : n \in 1..MaxItems}

\* What the collector writes for one object.
emit(item) ==
    CASE item.kind = "db" ->
            IF item.whole THEN putDatabase(item.name) ELSE <<putDatabase(item.name)[1]>>
      [] item.kind = "att" -> putAttachment(item.name)
      [] item.kind = "ctx" -> putContextVars
      [] item.kind = "tra" -> putTransaction
      [] item.kind = "call" -> putCall
      [] item.kind = "req" -> putRequest

\* DatabaseSnapshot::dumpData / dumpAttachment over the objects, then read(): the stream.
RECURSIVE dumpOf(_)
dumpOf(it) == IF it = <<>> THEN <<>> ELSE emit(it[1]) \o dumpOf(Tail(it))


-----------------------------------------------------------------------------
(* DatabaseSnapshot::DatabaseSnapshot, the parse of the dump.              *)

\* Firebird::string::compare(s, n): negative, zero or positive; zero only for equal strings.
RECURSIVE compare(_, _)
compare(a, b) ==
    IF a = <<>> /\ b = <<>> THEN 0
    ELSE IF a = <<>> THEN -1
    ELSE IF b = <<>> THEN 1
    ELSE IF a[1] < b[1] THEN -1
    ELSE IF a[1] > b[1] THEN 1
    ELSE compare(Tail(a), Tail(b))

\* The locals of the parse before the first record; record is what putField has filled.
ParseStart ==
    [dbb_processed |-> FALSE, fields_processed |-> FALSE,
     dbb_allowed |-> FALSE, att_allowed |-> FALSE, record |-> <<>>]

\* The accepting branch of the field loop: the field goes into the temporary
\* record (putField) and the flags of the branch are set.
acceptField(st, f, setsProcessed) ==
    [st EXCEPT !.record = Append(@, f),
               !.fields_processed = TRUE,
               !.dbb_processed = @ \/ setsProcessed]

\* The body of the field loop with the user test of f_mon_att_user left out.
processFieldAnyUser(st, rid, f, rq) ==
    IF rid = "rel_mon_database"
    THEN LET s1 == IF f.id = "f_mon_db_name"
                   THEN [st EXCEPT !.dbb_allowed = (compare(rq.databaseName, f.data) = 0)]
                   ELSE st
             s2 == IF s1.dbb_allowed /\ ~s1.dbb_processed THEN acceptField(s1, f, FALSE) ELSE s1
         IN  [s2 EXCEPT !.att_allowed = (s2.dbb_allowed /\ ~s2.dbb_processed)]
    ELSE IF rid = "rel_mon_attachments"
    THEN LET s1 == IF f.id = "f_mon_att_user"
                   THEN [st EXCEPT !.att_allowed = TRUE]
                   ELSE st
         IN  IF s1.dbb_allowed /\ s1.att_allowed THEN acceptField(s1, f, TRUE) ELSE s1
    ELSE IF st.dbb_allowed /\ st.att_allowed THEN acceptField(st, f, TRUE) ELSE st

\* The body of the field loop with the generic branch testing dbb_allowed alone.
processFieldAnyChild(st, rid, f, rq) ==
    IF rid = "rel_mon_database"
    THEN LET s1 == IF f.id = "f_mon_db_name"
                   THEN [st EXCEPT !.dbb_allowed = (compare(rq.databaseName, f.data) = 0)]
                   ELSE st
             s2 == IF s1.dbb_allowed /\ ~s1.dbb_processed THEN acceptField(s1, f, FALSE) ELSE s1
         IN  [s2 EXCEPT !.att_allowed = (s2.dbb_allowed /\ ~s2.dbb_processed)]
    ELSE IF rid = "rel_mon_attachments"
    THEN LET s1 == IF f.id = "f_mon_att_user"
                   THEN [st EXCEPT !.att_allowed =
                             (rq.locksmith \/ compare(rq.userName, f.data) = 0)]
                   ELSE st
         IN  IF s1.dbb_allowed /\ s1.att_allowed THEN acceptField(s1, f, TRUE) ELSE s1
    ELSE IF st.dbb_allowed THEN acceptField(st, f, TRUE) ELSE st

\* The body of the field loop with dbb_allowed granted only while no database
\* row has been processed.
processFieldFirstDbOnly(st, rid, f, rq) ==
    IF rid = "rel_mon_database"
    THEN LET s1 == IF f.id = "f_mon_db_name"
                   THEN [st EXCEPT !.dbb_allowed =
                             (compare(rq.databaseName, f.data) = 0 /\ ~st.dbb_processed)]
                   ELSE st
             s2 == IF s1.dbb_allowed /\ ~s1.dbb_processed THEN acceptField(s1, f, FALSE) ELSE s1
         IN  [s2 EXCEPT !.att_allowed = (s2.dbb_allowed /\ ~s2.dbb_processed)]
    ELSE IF rid = "rel_mon_attachments"
    THEN LET s1 == IF f.id = "f_mon_att_user"
                   THEN [st EXCEPT !.att_allowed =
                             (rq.locksmith \/ compare(rq.userName, f.data) = 0)]
                   ELSE st
         IN  IF s1.dbb_allowed /\ s1.att_allowed THEN acceptField(s1, f, TRUE) ELSE s1
    ELSE IF st.dbb_allowed /\ st.att_allowed THEN acceptField(st, f, TRUE) ELSE st

\* The body of the field loop: one dump field of a record of relation rid.
processField(st, rid, f, rq) ==
    IF rid = "rel_mon_database"
    THEN LET s1 == IF f.id = "f_mon_db_name"
                   THEN [st EXCEPT !.dbb_allowed = (compare(rq.databaseName, f.data) = 0)]
                   ELSE st
             s2 == IF s1.dbb_allowed /\ ~s1.dbb_processed THEN acceptField(s1, f, FALSE) ELSE s1
         IN  [s2 EXCEPT !.att_allowed = (s2.dbb_allowed /\ ~s2.dbb_processed)]
    ELSE IF rid = "rel_mon_attachments"
    THEN LET s1 == IF f.id = "f_mon_att_user"
                   THEN [st EXCEPT !.att_allowed =
                             (rq.locksmith \/ compare(rq.userName, f.data) = 0)]
                   ELSE st
         IN  IF s1.dbb_allowed /\ s1.att_allowed THEN acceptField(s1, f, TRUE) ELSE s1
    ELSE IF st.dbb_allowed /\ st.att_allowed THEN acceptField(st, f, TRUE) ELSE st

\* while (dumpRecord.getField(dumpField)): the fields of one record, in order.
RECURSIVE processFields(_, _, _, _)
processFields(st, rid, fs, rq) ==
    IF fs = <<>> THEN st
    ELSE processFields(processField(st, rid, Head(fs), rq), rid, Tail(fs), rq)

\* while (reader.getRecord(dumpRecord)): records k.. of the dump d; out is what
\* buffer->store has kept, each entry the index of the dump record and its fields.
RECURSIVE parseDump(_, _, _, _, _)
parseDump(st, d, k, rq, out) ==
    IF k > Len(d) THEN [flags |-> st, stored |-> out]
    ELSE LET s1 == processFields([st EXCEPT !.record = <<>>], d[k].rid, d[k].fields, rq)
         IN  IF s1.fields_processed
             THEN parseDump([s1 EXCEPT !.fields_processed = FALSE], d, k + 1, rq,
                            Append(out, [idx |-> k, rid |-> d[k].rid, fields |-> s1.record]))
             ELSE parseDump(s1, d, k + 1, rq, out)

\* The constructor from "Parse the dump" to its end.
ParseDump ==
    /\ ~parsed
    /\ LET r == parseDump(ParseStart, dump, 1, requester, <<>>)
       IN  /\ stored' = r.stored
           /\ flags' = [dbb_processed |-> r.flags.dbb_processed,
                        dbb_allowed |-> r.flags.dbb_allowed,
                        att_allowed |-> r.flags.att_allowed]
    /\ parsed' = TRUE
    /\ UNCHANGED <<dump, requester>>

\* The requesting attachment: its database's name, its user, whether it is locksmith.
Requesters ==
    [databaseName : DbNames, userName : UserNames, locksmith : BOOLEAN]

InitFilter ==
    /\ \E it \in ItemSeqs : dump = dumpOf(it)
    /\ requester \in Requesters
    /\ parsed = FALSE
    /\ stored = <<>>
    /\ flags = [dbb_processed |-> FALSE, dbb_allowed |-> FALSE, att_allowed |-> FALSE]

\* The store is not part of the parse: it stays as constructed.
StoreParked ==
    /\ InitStore
    /\ profile = GrowProfile

\* The parse leaves the other parts alone.
FilterOnly == UNCHANGED <<storeVars, protoVars, snapVars, fieldVars, guardVars,
                           refVars,
                           ptrVars,
                           lockVars>>

NextFilter == ParseDump /\ FilterOnly

\* A dump and a requester; the shared region and the lock round parked.
FilterInit == InitFilter /\ StoreParked /\ ProtoParked /\ SnapParked /\ FieldParked /\ GuardParked /\ RefParked /\ PtrParked /\ LocksParked

SpecFilter == FilterInit /\ [][NextFilter]_vars


-----------------------------------------------------------------------------
(* Properties of the parse.                                                *)

Parents == {"rel_mon_database", "rel_mon_attachments"}

IsChild(k) == dump[k].rid \notin Parents

\* The nearest database or attachment record before record k of the dump; 0 if none.
ParentOf(k) ==
    LET before == {j \in 1..(k - 1) : dump[j].rid \in Parents}
    IN  IF before = {} THEN 0 ELSE CHOOSE j \in before : \A h \in before : h <= j

\* The nearest database record at or before record k of the dump.
DatabaseOf(k) ==
    LET before == {j \in 1..k : dump[j].rid = "rel_mon_database"}
    IN  CHOOSE j \in before : \A h \in before : h <= j

\* The first field of a database or attachment record: its name, its user.
KeyOf(k) == dump[k].fields[1].data

StoredIdx == {stored[n].idx : n \in DOMAIN stored}

ForeignAttachment(k) ==
    /\ dump[k].rid = "rel_mon_attachments"
    /\ KeyOf(k) # requester.userName

\* C1: for a requester that is not locksmith, no stored attachment row has a
\* user other than the requester's, and no stored row of another relation
\* follows such an attachment before the next attachment or database record.
C1_NonLocksmithSeesOwnOnly ==
    (parsed /\ ~requester.locksmith) =>
        \A n \in DOMAIN stored :
            LET k == stored[n].idx
            IN  /\ stored[n].rid = "rel_mon_attachments" =>
                      /\ stored[n].fields[1].id = "f_mon_att_user"
                      /\ stored[n].fields[1].data = requester.userName
                /\ ~ForeignAttachment(k)
                /\ (IsChild(k) /\ ParentOf(k) # 0) => ~ForeignAttachment(ParentOf(k))

\* A parse for a non-locksmith of a dump of its own database where a foreign
\* attachment with rows of its own comes first and an attachment of the
\* requester, stored with one of its rows, comes later.
C1_Witness ==
    /\ parsed
    /\ ~requester.locksmith
    /\ \E j, k \in DOMAIN dump :
          /\ j < k
          /\ ForeignAttachment(j)
          /\ KeyOf(DatabaseOf(j)) = requester.databaseName
          /\ dump[j + 1].rid = "rel_mon_io_stats"
          /\ dump[k].rid = "rel_mon_attachments"
          /\ {k, k + 1} \subseteq StoredIdx

\* C10 as stated: every stored record of a relation other than database and
\* attachments comes after a stored attachment record of a database record
\* that carries the requester's database name.
C10_ChildAfterAcceptedAttachment ==
    parsed =>
        \A k \in StoredIdx :
            IsChild(k) =>
                \E j \in 1..(k - 1) :
                    /\ dump[j].rid = "rel_mon_attachments"
                    /\ j \in StoredIdx
                    /\ KeyOf(DatabaseOf(j)) = requester.databaseName

\* C10, amended: the nearest database or attachment record before a stored
\* record of another relation is itself stored, and the nearest database
\* record before it carries the requester's database name.
C10_ChildAfterStoredParent ==
    parsed =>
        \A k \in StoredIdx :
            IsChild(k) =>
                /\ ParentOf(k) # 0
                /\ ParentOf(k) \in StoredIdx
                /\ KeyOf(DatabaseOf(k)) = requester.databaseName

\* A parse that stored a row under an attachment and a row under the database
\* record, and skipped the rows of a rejected attachment.
C10_Witness ==
    /\ parsed
    /\ \E k \in StoredIdx :
          IsChild(k) /\ dump[ParentOf(k)].rid = "rel_mon_attachments"
    /\ \E k \in StoredIdx :
          IsChild(k) /\ dump[ParentOf(k)].rid = "rel_mon_database"
    /\ \E k \in DOMAIN dump :
          /\ IsChild(k)
          /\ k \notin StoredIdx
          /\ ForeignAttachment(ParentOf(k))
          /\ KeyOf(DatabaseOf(k)) = requester.databaseName


-----------------------------------------------------------------------------
(* The monitor lock round: DatabaseSnapshot::DatabaseSnapshot up to read() *)
(* and DatabaseSnapshot::blockingAst.  dumpData is one step here; what it  *)
(* does to the shared region is the subject of SpecStore.                  *)

\* LCK_release of the instance's shared monitor lock; releasing a lock not held changes nothing.
LCK_release(d) == dbb_monitor_lock' = [dbb_monitor_lock EXCEPT ![d] = "none"]

\* The lock manager grants LCK_EX when no shared lock and no other exclusive lock is held.
Grantable(d) ==
    /\ \A o \in Dbbs : dbb_monitor_lock[o] = "none"
    /\ \A o \in Dbbs \ {d} : temp_lock[o] # "granted"

\* SyncLockGuard on dbb_mon_sync, SYNC_EXCLUSIVE: waits until the latch is free.
SyncLockGuard(d, who) ==
    /\ dbb_mon_sync[d] = "free"
    /\ dbb_mon_sync' = [dbb_mon_sync EXCEPT ![d] = who]

SyncUnlock(d) == dbb_mon_sync' = [dbb_mon_sync EXCEPT ![d] = "free"]

\* Constructor: take the latch, release our own lock, clear DBB_monitor_off.
CtorEnter(d) ==
    /\ wpc[d] = "idle"
    /\ nsnap < MaxSnapshots
    /\ SyncLockGuard(d, "ctor")
    /\ LCK_release(d)
    /\ DBB_monitor_off' = [DBB_monitor_off EXCEPT ![d] = FALSE]
    /\ wpc' = [wpc EXCEPT ![d] = "dump"]
    /\ nsnap' = nsnap + 1
    /\ lastAst' = [lastAst EXCEPT ![d] = NoAst]
    /\ astFresh' = [astFresh EXCEPT ![d] = FALSE]
    /\ UNCHANGED <<temp_lock, apc, astFailed, heldAtRequest, publishedSince, nreacq>>

\* Constructor: "Dump our own data", then the latch's scope ends.  An error of
\* dumpData leaves the constructor.
CtorDump(d) ==
    /\ wpc[d] = "dump"
    /\ \E ok \in BOOLEAN :
          wpc' = [wpc EXCEPT ![d] = IF ok THEN "signal" ELSE "idle"]
    /\ SyncUnlock(d)
    /\ UNCHANGED <<dbb_monitor_lock, DBB_monitor_off, temp_lock, apc, astFailed, lastAst,
                   nsnap, nreacq, heldAtRequest, publishedSince, astFresh>>

\* Constructor: LCK_lock(tdbb, lock, LCK_EX, LCK_WAIT) is issued.
RequestEx(d) ==
    /\ wpc[d] = "signal"
    /\ temp_lock' = [temp_lock EXCEPT ![d] = "waiting"]
    /\ heldAtRequest' =
          [heldAtRequest EXCEPT ![d] = {o \in Dbbs \ {d} : dbb_monitor_lock[o] = "SR"}]
    /\ publishedSince' = [publishedSince EXCEPT ![d] = {}]
    /\ wpc' = [wpc EXCEPT ![d] = "wait"]
    /\ UNCHANGED <<dbb_monitor_lock, DBB_monitor_off, dbb_mon_sync, apc, astFailed, lastAst,
                   nsnap, nreacq, astFresh>>

\* LCK_lock returns true: the exclusive lock is granted.
GrantEx(d) ==
    /\ wpc[d] = "wait"
    /\ temp_lock[d] = "waiting"
    /\ Grantable(d)
    /\ temp_lock' = [temp_lock EXCEPT ![d] = "granted"]
    /\ UNCHANGED <<dbb_monitor_lock, DBB_monitor_off, dbb_mon_sync, wpc, apc, astFailed,
                   lastAst, nsnap, nreacq, heldAtRequest, publishedSince, astFresh>>

\* LCK_lock returns false: the wait ended without the lock.  temp_lock keeps
\* "denied" until the constructor ends.
DenyEx(d) ==
    /\ wpc[d] = "wait"
    /\ temp_lock[d] = "waiting"
    /\ temp_lock' = [temp_lock EXCEPT ![d] = "denied"]
    /\ wpc' = [wpc EXCEPT ![d] = "flag"]
    /\ heldAtRequest' = [heldAtRequest EXCEPT ![d] = {}]
    /\ publishedSince' = [publishedSince EXCEPT ![d] = {}]
    /\ UNCHANGED <<dbb_monitor_lock, DBB_monitor_off, dbb_mon_sync, apc, astFailed, lastAst,
                   nsnap, nreacq, astFresh>>

\* Constructor: LCK_release(tdbb, lock) of the granted exclusive lock.
ReleaseEx(d) ==
    /\ wpc[d] = "wait"
    /\ temp_lock[d] = "granted"
    /\ temp_lock' = [temp_lock EXCEPT ![d] = "none"]
    /\ wpc' = [wpc EXCEPT ![d] = "flag"]
    /\ heldAtRequest' = [heldAtRequest EXCEPT ![d] = {}]
    /\ publishedSince' = [publishedSince EXCEPT ![d] = {}]
    /\ UNCHANGED <<dbb_monitor_lock, DBB_monitor_off, dbb_mon_sync, apc, astFailed, lastAst,
                   nsnap, nreacq, astFresh>>

\* Constructor: "Mark dbb as requesting a new lock", outside the latch.
MarkOff(d) ==
    /\ wpc[d] = "flag"
    /\ DBB_monitor_off' = [DBB_monitor_off EXCEPT ![d] = TRUE]
    /\ wpc' = [wpc EXCEPT ![d] = "read"]
    /\ UNCHANGED <<dbb_monitor_lock, dbb_mon_sync, temp_lock, apc, astFailed, lastAst,
                   nsnap, nreacq, heldAtRequest, publishedSince, astFresh>>

\* Constructor: "Read the shared memory", read() under the Guard.
ReadShared(d) ==
    /\ wpc[d] = "read"
    /\ wpc' = [wpc EXCEPT ![d] = "parse"]
    /\ UNCHANGED <<dbb_monitor_lock, DBB_monitor_off, dbb_mon_sync, temp_lock, apc,
                   astFailed, lastAst, nsnap, nreacq, heldAtRequest, publishedSince, astFresh>>

\* Constructor: "Parse the dump"; the constructor returns the snapshot.
CtorReturn(d) ==
    /\ wpc[d] = "parse"
    /\ wpc' = [wpc EXCEPT ![d] = "idle"]
    /\ temp_lock' = [temp_lock EXCEPT ![d] = "none"]
    /\ UNCHANGED <<dbb_monitor_lock, DBB_monitor_off, dbb_mon_sync, apc,
                   astFailed, lastAst, nsnap, nreacq, heldAtRequest, publishedSince, astFresh>>

(* An instance marked DBB_monitor_off takes a new shared lock and clears    *)
(* the mark, at the next check any of its threads makes: in one step,      *)
(* while nobody holds dbb_mon_sync and no blockingAst call is in progress. *)
(* A thread in the snapshot constructor may be anywhere outside the latch. *)
Reacquire(d) ==
    /\ dbb_mon_sync[d] = "free"
    /\ apc[d] = "none"
    /\ DBB_monitor_off[d]
    /\ dbb_monitor_lock[d] = "none"
    /\ nreacq < MaxReacquires
    /\ nreacq' = nreacq + 1
    /\ \A o \in Dbbs : temp_lock[o] # "granted"
    /\ dbb_monitor_lock' = [dbb_monitor_lock EXCEPT ![d] = "SR"]
    /\ DBB_monitor_off' = [DBB_monitor_off EXCEPT ![d] = FALSE]
    /\ lastAst' = [lastAst EXCEPT ![d] = NoAst]
    /\ astFresh' = [astFresh EXCEPT ![d] = FALSE]
    /\ UNCHANGED <<dbb_mon_sync, temp_lock, wpc, apc, astFailed, nsnap,
                   heldAtRequest, publishedSince>>

\* The same by the thread that constructed the last snapshot, or with no
\* snapshot under construction in the instance.
ReacquireIdle(d) ==
    /\ wpc[d] = "idle"
    /\ apc[d] = "none"
    /\ DBB_monitor_off[d]
    /\ dbb_monitor_lock[d] = "none"
    /\ \A o \in Dbbs : temp_lock[o] # "granted"
    /\ dbb_monitor_lock' = [dbb_monitor_lock EXCEPT ![d] = "SR"]
    /\ DBB_monitor_off' = [DBB_monitor_off EXCEPT ![d] = FALSE]
    /\ lastAst' = [lastAst EXCEPT ![d] = NoAst]
    /\ astFresh' = [astFresh EXCEPT ![d] = FALSE]
    /\ UNCHANGED <<dbb_mon_sync, temp_lock, wpc, apc, astFailed, nsnap, nreacq,
                   heldAtRequest, publishedSince>>

\* The lock manager calls the blocking AST of a shared holder that stands in
\* the way of a waiting exclusive request.
DeliverAst(d) ==
    /\ apc[d] = "none"
    /\ dbb_monitor_lock[d] = "SR"
    /\ \E o \in Dbbs \ {d} : temp_lock[o] = "waiting"
    /\ apc' = [apc EXCEPT ![d] = "called"]
    /\ astFailed' = [astFailed EXCEPT ![d] = FALSE]
    /\ astFresh' = [astFresh EXCEPT ![d] = TRUE]
    /\ UNCHANGED <<dbb_monitor_lock, DBB_monitor_off, dbb_mon_sync, temp_lock, wpc, lastAst,
                   nsnap, nreacq, heldAtRequest, publishedSince>>

\* blockingAst returns 0; lastAst records how the call ended.
AstReturn(d, ran, lockAfter, flagAfter) ==
    /\ apc' = [apc EXCEPT ![d] = "none"]
    /\ astFailed' = [astFailed EXCEPT ![d] = FALSE]
    /\ lastAst' = [lastAst EXCEPT ![d] =
                      [ran |-> ran, failed |-> astFailed[d], returned |-> 0,
                       released |-> (lockAfter = "none"), flagged |-> flagAfter,
                       fresh |-> astFresh[d]]]
    /\ astFresh' = [astFresh EXCEPT ![d] = FALSE]

\* blockingAst: the first test of DBB_monitor_off, before the latch.
AstCheck(d) ==
    /\ apc[d] = "called"
    /\ IF DBB_monitor_off[d]
       THEN AstReturn(d, FALSE, dbb_monitor_lock[d], DBB_monitor_off[d])
       ELSE apc' = [apc EXCEPT ![d] = "latch"] /\ UNCHANGED <<lastAst, astFailed, astFresh>>
    /\ UNCHANGED <<dbb_monitor_lock, DBB_monitor_off, dbb_mon_sync, temp_lock, wpc,
                   nsnap, nreacq, heldAtRequest, publishedSince>>

\* blockingAst: the latch is taken and DBB_monitor_off is tested again.
AstLatch(d) ==
    /\ apc[d] = "latch"
    /\ dbb_mon_sync[d] = "free"
    /\ IF DBB_monitor_off[d]
       THEN /\ AstReturn(d, FALSE, dbb_monitor_lock[d], DBB_monitor_off[d])
            /\ UNCHANGED dbb_mon_sync
       ELSE /\ SyncLockGuard(d, "ast")
            /\ apc' = [apc EXCEPT ![d] = "dump"]
            /\ UNCHANGED <<lastAst, astFailed, astFresh>>
    /\ UNCHANGED <<dbb_monitor_lock, DBB_monitor_off, temp_lock, wpc, nsnap, nreacq,
                   heldAtRequest, publishedSince>>

\* The peers' requests that were waiting while instance d's AST ran dumpData.
Answered(d) ==
    [o \in Dbbs |-> IF o # d /\ temp_lock[o] = "waiting"
                    THEN publishedSince[o] \cup {d}
                    ELSE publishedSince[o]]

\* blockingAst without the inner try: an error of dumpData reaches the outer
\* handler, which does nothing, and the call returns 0.
AstDumpNoInnerCatch(d) ==
    /\ apc[d] = "dump"
    /\ dbb_mon_sync[d] = "ast"
    /\ publishedSince' = Answered(d)
    /\ \E ok \in BOOLEAN :
          IF ok
          THEN /\ apc' = [apc EXCEPT ![d] = "release"]
               /\ astFailed' = [astFailed EXCEPT ![d] = FALSE]
               /\ UNCHANGED <<dbb_mon_sync, lastAst, astFresh>>
          ELSE /\ astFailed' = [astFailed EXCEPT ![d] = FALSE]
               /\ SyncUnlock(d)
               /\ apc' = [apc EXCEPT ![d] = "none"]
               /\ astFresh' = [astFresh EXCEPT ![d] = FALSE]
               /\ lastAst' = [lastAst EXCEPT ![d] =
                                 [ran |-> TRUE, failed |-> TRUE, returned |-> 0,
                                  released |-> (dbb_monitor_lock[d] = "none"),
                                  flagged |-> DBB_monitor_off[d],
                                  fresh |-> astFresh[d]]]
    /\ UNCHANGED <<dbb_monitor_lock, DBB_monitor_off, temp_lock, wpc, nsnap, nreacq, heldAtRequest>>

\* A plausible slip: the lock is released before dumpData is called.
AstDumpAfterRelease(d) ==
    /\ apc[d] = "dump"
    /\ dbb_mon_sync[d] = "ast"
    /\ publishedSince' = Answered(d)
    /\ \E ok \in BOOLEAN : astFailed' = [astFailed EXCEPT ![d] = ~ok]
    /\ LCK_release(d)
    /\ apc' = [apc EXCEPT ![d] = "release"]
    /\ UNCHANGED <<DBB_monitor_off, dbb_mon_sync, temp_lock, wpc, lastAst,
                   nsnap, nreacq, heldAtRequest, astFresh>>

\* blockingAst: dumpData inside the inner try; its error is logged and the
\* call goes on.
AstDump(d) ==
    /\ apc[d] = "dump"
    /\ dbb_mon_sync[d] = "ast"
    /\ publishedSince' = Answered(d)
    /\ \E ok \in BOOLEAN : astFailed' = [astFailed EXCEPT ![d] = ~ok]
    /\ apc' = [apc EXCEPT ![d] = "release"]
    /\ UNCHANGED <<dbb_monitor_lock, DBB_monitor_off, dbb_mon_sync, temp_lock, wpc, lastAst,
                   nsnap, nreacq, heldAtRequest, astFresh>>

\* blockingAst: "Release the lock": LCK_release(tdbb, lock).
AstRelease(d) ==
    /\ apc[d] = "release"
    /\ dbb_mon_sync[d] = "ast"
    /\ LCK_release(d)
    /\ apc' = [apc EXCEPT ![d] = "mark"]
    /\ UNCHANGED <<DBB_monitor_off, dbb_mon_sync, temp_lock, wpc, astFailed, lastAst, nsnap, nreacq,
                   heldAtRequest, publishedSince, astFresh>>

\* blockingAst: "and mark dbb as requesting a new one"; the latch's scope
\* ends and the call returns 0.
AstMarkOff(d) ==
    /\ apc[d] = "mark"
    /\ dbb_mon_sync[d] = "ast"
    /\ DBB_monitor_off' = [DBB_monitor_off EXCEPT ![d] = TRUE]
    /\ SyncUnlock(d)
    /\ AstReturn(d, TRUE, dbb_monitor_lock[d], TRUE)
    /\ UNCHANGED <<dbb_monitor_lock, temp_lock, wpc, nsnap, nreacq, heldAtRequest, publishedSince>>

\* The two statements of lines 372-373 and the return as one step.
AstReleaseMark(d) ==
    /\ apc[d] = "release"
    /\ dbb_mon_sync[d] = "ast"
    /\ LCK_release(d)
    /\ DBB_monitor_off' = [DBB_monitor_off EXCEPT ![d] = TRUE]
    /\ SyncUnlock(d)
    /\ AstReturn(d, TRUE, "none", TRUE)
    /\ UNCHANGED <<temp_lock, wpc, nsnap, nreacq, heldAtRequest, publishedSince>>

\* A step of the lock round leaves the other parts alone.
ProtoOnly == UNCHANGED <<storeVars, filterVars, snapVars, fieldVars, guardVars,
                          refVars,
                          ptrVars,
                          lockVars>>


NextProto ==
    \/ \E d \in Dbbs : CtorEnter(d) /\ ProtoOnly
    \/ \E d \in Dbbs : CtorDump(d) /\ ProtoOnly
    \/ \E d \in Dbbs : RequestEx(d) /\ ProtoOnly
    \/ \E d \in Dbbs : GrantEx(d) /\ ProtoOnly
    \/ \E d \in Dbbs : DenyEx(d) /\ ProtoOnly
    \/ \E d \in Dbbs : ReleaseEx(d) /\ ProtoOnly
    \/ \E d \in Dbbs : MarkOff(d) /\ ProtoOnly
    \/ \E d \in Dbbs : ReadShared(d) /\ ProtoOnly
    \/ \E d \in Dbbs : CtorReturn(d) /\ ProtoOnly
    \/ \E d \in Dbbs : ReacquireIdle(d) /\ ProtoOnly
    \/ \E d \in Dbbs : DeliverAst(d) /\ ProtoOnly
    \/ \E d \in Dbbs : AstCheck(d) /\ ProtoOnly
    \/ \E d \in Dbbs : AstLatch(d) /\ ProtoOnly
    \/ \E d \in Dbbs : AstDump(d) /\ ProtoOnly
    \/ \E d \in Dbbs : AstReleaseMark(d) /\ ProtoOnly

\* Every instance attached; the shared region and the parse parked.
ProtoInit == InitProto /\ StoreParked /\ FilterParked /\ SnapParked /\ FieldParked /\ GuardParked /\ RefParked /\ PtrParked /\ LocksParked

SpecProto == ProtoInit /\ [][NextProto]_vars

(* The lock round of two attached instances, with the re-acquisition of    *)
(* the shared lock at any moment another thread of the instance may make   *)
(* its check, a snapshot constructor of the instance running or not.       *)
AttachedDbbs == {1, 2}

InitAst ==
    /\ dbb_monitor_lock = [d \in Dbbs |-> IF d \in AttachedDbbs THEN "SR" ELSE "none"]
    /\ DBB_monitor_off = [d \in Dbbs |-> FALSE]
    /\ dbb_mon_sync = [d \in Dbbs |-> "free"]
    /\ temp_lock = [d \in Dbbs |-> "none"]
    /\ wpc = [d \in Dbbs |-> "idle"]
    /\ apc = [d \in Dbbs |-> "none"]
    /\ astFailed = [d \in Dbbs |-> FALSE]
    /\ lastAst = [d \in Dbbs |-> NoAst]
    /\ nsnap = 0
    /\ heldAtRequest = [d \in Dbbs |-> {}]
    /\ publishedSince = [d \in Dbbs |-> {}]
    /\ nreacq = 0
    /\ astFresh = [d \in Dbbs |-> FALSE]

NextAst ==
    \/ \E d \in AttachedDbbs : CtorEnter(d) /\ ProtoOnly
    \/ \E d \in AttachedDbbs : CtorDump(d) /\ ProtoOnly
    \/ \E d \in AttachedDbbs : RequestEx(d) /\ ProtoOnly
    \/ \E d \in AttachedDbbs : GrantEx(d) /\ ProtoOnly
    \/ \E d \in AttachedDbbs : DenyEx(d) /\ ProtoOnly
    \/ \E d \in AttachedDbbs : ReleaseEx(d) /\ ProtoOnly
    \/ \E d \in AttachedDbbs : MarkOff(d) /\ ProtoOnly
    \/ \E d \in AttachedDbbs : ReadShared(d) /\ ProtoOnly
    \/ \E d \in AttachedDbbs : CtorReturn(d) /\ ProtoOnly
    \/ \E d \in AttachedDbbs : Reacquire(d) /\ ProtoOnly
    \/ \E d \in AttachedDbbs : DeliverAst(d) /\ ProtoOnly
    \/ \E d \in AttachedDbbs : AstCheck(d) /\ ProtoOnly
    \/ \E d \in AttachedDbbs : AstLatch(d) /\ ProtoOnly
    \/ \E d \in AttachedDbbs : AstDump(d) /\ ProtoOnly
    \/ \E d \in AttachedDbbs : AstRelease(d) /\ ProtoOnly
    \/ \E d \in AttachedDbbs : AstMarkOff(d) /\ ProtoOnly

AstInit == InitAst /\ StoreParked /\ FilterParked /\ SnapParked /\ FieldParked /\ GuardParked /\ RefParked /\ PtrParked /\ LocksParked

(* Fair scheduling of the lock round: a constructor that has started goes  *)
(* on, the lock manager grants a grantable request and calls the blocking  *)
(* AST of a holder in the way, and a blockingAst call goes on.  Starting a *)
(* snapshot, the re-acquisition and the end of a wait without the lock are *)
(* left to the instance and to the lock manager.                           *)
AstFairness ==
    \A d \in AttachedDbbs :
        /\ WF_vars(CtorDump(d) /\ ProtoOnly)
        /\ WF_vars(RequestEx(d) /\ ProtoOnly)
        /\ WF_vars(GrantEx(d) /\ ProtoOnly)
        /\ WF_vars(ReleaseEx(d) /\ ProtoOnly)
        /\ WF_vars(MarkOff(d) /\ ProtoOnly)
        /\ WF_vars(ReadShared(d) /\ ProtoOnly)
        /\ WF_vars(CtorReturn(d) /\ ProtoOnly)
        /\ WF_vars(DeliverAst(d) /\ ProtoOnly)
        /\ WF_vars(AstCheck(d) /\ ProtoOnly)
        /\ WF_vars(AstLatch(d) /\ ProtoOnly)
        /\ WF_vars(AstDump(d) /\ ProtoOnly)
        /\ WF_vars(AstRelease(d) /\ ProtoOnly)
        /\ WF_vars(AstMarkOff(d) /\ ProtoOnly)

SpecAstFair == AstInit /\ [][NextAst]_vars /\ AstFairness

SpecAst == AstInit /\ [][NextAst]_vars


-----------------------------------------------------------------------------
(* Properties of the monitor lock round.                                   *)

\* C7: when a requester's exclusive monitor lock is granted, every peer that
\* held the shared monitor lock when the request was issued has finished a
\* dumpData attempt in its blocking AST since that request.
C7_PeersPublishedBeforeGrant ==
    \A d \in Dbbs :
        temp_lock[d] = "granted" => heldAtRequest[d] \subseteq publishedSince[d]

\* C8: a blockingAst call in which dumpData raised has returned 0, and the
\* instance has released its shared monitor lock and set DBB_monitor_off.
C8_AstSwallowsDumpError ==
    \A d \in Dbbs :
        (lastAst[d].ran /\ lastAst[d].failed) =>
            /\ lastAst[d].returned = 0
            /\ lastAst[d].released
            /\ lastAst[d].flagged
            /\ dbb_monitor_lock[d] = "none"
            /\ DBB_monitor_off[d]

\* A peer whose dumpData raised in its AST, and a requester that held it
\* among the shared holders and has been granted the exclusive lock.
C8_Witness ==
    \E d \in Dbbs, o \in Dbbs :
        /\ lastAst[d].ran
        /\ lastAst[d].failed
        /\ temp_lock[o] = "granted"
        /\ d \in heldAtRequest[o]
        /\ d \in publishedSince[o]


-----------------------------------------------------------------------------
(* Further properties of the parse.                                        *)

StoredOf(rid) == {n \in DOMAIN stored : stored[n].rid = rid}

\* C11: a database record is stored only if its db_name is the requester's
\* database name, and at most one database row is stored per snapshot.
C11_OneDatabaseRowByName ==
    parsed =>
        /\ \A n \in StoredOf("rel_mon_database") :
              /\ KeyOf(stored[n].idx) = requester.databaseName
              /\ stored[n].fields[1].data = requester.databaseName
        /\ Cardinality(StoredOf("rel_mon_database")) <= 1


\* The attachment records of the dump that the filter rules accept.
Acceptable(k) ==
    /\ KeyOf(DatabaseOf(k)) = requester.databaseName
    /\ (requester.locksmith \/ KeyOf(k) = requester.userName)

\* C12: an attachment record is stored if and only if the nearest database
\* record before it carries the requester's database name and the requester
\* is locksmith or the record's user is the requester's; for a locksmith the
\* records that follow such an attachment up to the next attachment or
\* database record are stored too.
C12_AttachmentStoredIffAcceptable ==
    parsed =>
        \A k \in DOMAIN dump :
            /\ dump[k].rid = "rel_mon_attachments" =>
                  (k \in StoredIdx <=> Acceptable(k))
            /\ (requester.locksmith /\ IsChild(k) /\ ParentOf(k) # 0
                  /\ dump[ParentOf(k)].rid = "rel_mon_attachments"
                  /\ Acceptable(ParentOf(k))) => k \in StoredIdx

\* A locksmith's parse of two contributions of its database: the second
\* database record is not stored; the attachment after it, of another user,
\* and the attachment's first row are.
C12_Witness ==
    /\ parsed
    /\ requester.locksmith
    /\ \E d \in DOMAIN dump, a \in DOMAIN dump :
          /\ dump[d].rid = "rel_mon_database"
          /\ d \notin StoredIdx
          /\ KeyOf(d) = requester.databaseName
          /\ dump[a].rid = "rel_mon_attachments"
          /\ DatabaseOf(a) = d
          /\ KeyOf(a) # requester.userName
          /\ {a, a + 1} \subseteq StoredIdx


-----------------------------------------------------------------------------
(* The snapshot object of a transaction: DatabaseSnapshot::create, and the *)
(* translation of global ids to local ids in DataDump::putField.           *)

BITS_PER_LONG == 32

\* Half a long: the 64-bit id is kept as its high BITS_PER_LONG bits (a signed
\* number) and its low BITS_PER_LONG bits (two unsigned halves, upper first).
HalfLong == 2 ^ (BITS_PER_LONG \div 2)

MaxInt == 2147483647
MinInt == -MaxInt - 1

\* A plausible slip: the value is or-ed into the shifted process id.
getGlobalIdOr(pid, value) ==
    [high |-> IF value < 0 THEN -1 ELSE pid,
     low |-> <<(value \div HalfLong) % HalfLong, value % HalfLong>>]

(* DatabaseSnapshot::getGlobalId for getpid() = pid:                       *)
(* ((SINT64) pid << BITS_PER_LONG) + value, the int value sign-extended to *)
(* 64 bits: a negative value borrows one from the high half.               *)
getGlobalId(pid, value) ==
    [high |-> pid + ((value \div HalfLong) \div HalfLong),
     low |-> <<(value \div HalfLong) % HalfLong, value % HalfLong>>]

\* (process id, counter value) of the ids the collectors of two processes hand out.
IdSources == {<<1, 1>>, <<1, MaxInt>>, <<1, -1>>, <<2, -1>>}

GlobalIds == {getGlobalId(src[1], src[2]) : src \in IdSources}

\* Process ids and counter values at the ends and in the middle of their ranges.
SamplePids == {0, 1, 2, 32767, 32768, 65535, 65536, MaxInt - 1, MaxInt}
SampleValues == {MinInt, MinInt + 1, -65537, -65536, -65535, -2, -1, 0, 1, 2,
                 65535, 65536, 65537, MaxInt - 1, MaxInt}

\* putField's VALUE_GLOBAL_ID branch with a local id taken for every field.
translateIdAlwaysNew(map, counter, g) ==
    [idMap |-> [h \in DOMAIN map \cup {g} |-> IF h = g THEN counter + 1 ELSE map[h]],
     idCounter |-> counter + 1,
     local_id |-> counter + 1]

\* putField's VALUE_GLOBAL_ID branch: idMap.get, else ++idCounter and idMap.put.
translateId(map, counter, g) ==
    IF g \in DOMAIN map
    THEN [idMap |-> map, idCounter |-> counter, local_id |-> map[g]]
    ELSE [idMap |-> [h \in DOMAIN map \cup {g} |-> IF h = g THEN counter + 1 ELSE map[h]],
          idCounter |-> counter + 1,
          local_id |-> counter + 1]

\* create() with the test of tra_db_snapshot left out.
mustBuildAlways(snapshot) == TRUE

\* create(): if (!transaction->tra_db_snapshot).
mustBuild(snapshot) == snapshot = 0

\* create(), also reached through getFormat and retrieveRecord: the stored
\* snapshot is returned, or the constructor is entered with a new DataDump.
Create(t) ==
    /\ tpc[t] = "idle"
    /\ ncalls < MaxCalls
    /\ ncalls' = ncalls + 1
    /\ IF mustBuild(tra_db_snapshot[t])
       THEN /\ tpc' = [tpc EXCEPT ![t] = "building"]
            /\ rounds' = [rounds EXCEPT ![t] = @ + 1]
            /\ idMap' = [idMap EXCEPT ![t] = NoIds]
            /\ idCounter' = [idCounter EXCEPT ![t] = 0]
            /\ idLog' = [idLog EXCEPT ![t] = <<>>]
            /\ lastCreate' = [lastCreate EXCEPT ![t] = NoCreate]
       ELSE /\ lastCreate' = [lastCreate EXCEPT ![t] =
                                 [snapshot |-> tra_db_snapshot[t], built |-> FALSE]]
            /\ UNCHANGED <<tpc, rounds, idMap, idCounter, idLog>>
    /\ UNCHANGED <<tra_db_snapshot, storeVersion, rows, nfields>>

\* putField inside the constructor's parse, for a VALUE_GLOBAL_ID field; a
\* field the relation's format does not know is left out before the id map
\* is looked at.
PutGlobalId(t) ==
    /\ tpc[t] = "building"
    /\ nfields < MaxFields
    /\ nfields' = nfields + 1
    /\ \E src \in IdSources, known \in BOOLEAN :
          IF known
          THEN LET g == getGlobalId(src[1], src[2])
                   r == translateId(idMap[t], idCounter[t], g)
               IN  /\ idMap' = [idMap EXCEPT ![t] = r.idMap]
                   /\ idCounter' = [idCounter EXCEPT ![t] = r.idCounter]
                   /\ idLog' = [idLog EXCEPT ![t] =
                                   Append(@, [pid |-> src[1], value |-> src[2],
                                              global_id |-> g, local_id |-> r.local_id])]
          ELSE UNCHANGED <<idMap, idCounter, idLog>>
    /\ UNCHANGED <<tra_db_snapshot, tpc, rounds, storeVersion, rows, lastCreate, ncalls>>

\* The constructor returns: create() stores the snapshot in the transaction.
CreateDone(t) ==
    /\ tpc[t] = "building"
    /\ tpc' = [tpc EXCEPT ![t] = "idle"]
    /\ tra_db_snapshot' = [tra_db_snapshot EXCEPT ![t] = rounds[t]]
    /\ rows' = [rows EXCEPT ![t] = storeVersion]
    /\ lastCreate' = [lastCreate EXCEPT ![t] = [snapshot |-> rounds[t], built |-> TRUE]]
    /\ UNCHANGED <<rounds, storeVersion, idMap, idCounter, idLog, ncalls, nfields>>

\* The constructor raises: nothing is stored in the transaction.
CreateRaise(t) ==
    /\ tpc[t] = "building"
    /\ tpc' = [tpc EXCEPT ![t] = "idle"]
    /\ idMap' = [idMap EXCEPT ![t] = NoIds]
    /\ idCounter' = [idCounter EXCEPT ![t] = 0]
    /\ idLog' = [idLog EXCEPT ![t] = <<>>]
    /\ UNCHANGED <<tra_db_snapshot, rounds, storeVersion, rows, lastCreate, ncalls, nfields>>

\* Some process publishes: the shared store changes.
StoreChange ==
    /\ storeVersion < MaxChanges
    /\ storeVersion' = storeVersion + 1
    /\ UNCHANGED <<tra_db_snapshot, tpc, rounds, rows, lastCreate, idMap, idCounter, idLog,
                   ncalls, nfields>>

\* A step of the snapshot object leaves the other parts alone.
SnapOnly == UNCHANGED <<storeVars, filterVars, protoVars, fieldVars, guardVars,
                         refVars,
                         ptrVars,
                         lockVars>>

NextSnapshot ==
    \/ \E t \in Transactions : Create(t) /\ SnapOnly
    \/ \E t \in Transactions : PutGlobalId(t) /\ SnapOnly
    \/ \E t \in Transactions : CreateDone(t) /\ SnapOnly
    \/ \E t \in Transactions : CreateRaise(t) /\ SnapOnly
    \/ StoreChange /\ SnapOnly

\* No snapshot yet; the shared region, the parse and the lock round parked.
SnapInit == InitSnap /\ StoreParked /\ FilterParked /\ ProtoParked /\ FieldParked /\ GuardParked /\ RefParked /\ PtrParked /\ LocksParked

SpecSnapshot == SnapInit /\ [][NextSnapshot]_vars


-----------------------------------------------------------------------------
(* Properties of the snapshot object.                                      *)

\* The distinct global ids among the first n entries of a log.
SeenIn(L, n) == {L[m].global_id : m \in 1..n}

\* C13: within one snapshot equal global ids get equal local ids, distinct
\* ones get distinct local ids, and the local ids handed out are 1..k for k
\* distinct global ids, in order of first appearance.
C13_LocalIdsDenseInOrder ==
    \A t \in Transactions :
        LET L == idLog[t]
            k == Cardinality(SeenIn(L, Len(L)))
        IN  /\ \A m, n \in DOMAIN L :
                  (L[m].global_id = L[n].global_id) <=> (L[m].local_id = L[n].local_id)
            /\ {L[n].local_id : n \in DOMAIN L} = 1..k
            /\ \A n \in DOMAIN L :
                  L[n].global_id \notin SeenIn(L, n - 1) =>
                      L[n].local_id = Cardinality(SeenIn(L, n))

\* A snapshot that moved a global id, another one, and the first one again,
\* ids of two processes among them.
C13_Witness ==
    \E t \in Transactions :
        /\ Len(idLog[t]) = 3
        /\ idLog[t][1].global_id = idLog[t][3].global_id
        /\ idLog[t][2].pid # idLog[t][1].pid
        /\ idLog[t][3].local_id = 1

\* getGlobalId tells the sampled (process id, counter value) pairs apart.
SamplesInjective ==
    \A p1, p2 \in SamplePids : \A v1, v2 \in SampleValues :
        getGlobalId(p1, v1) = getGlobalId(p2, v2) => (p1 = p2 /\ v1 = v2)

\* C22: two different (process id, counter value) pairs never give the same
\* 64-bit global id: not among the ids a snapshot has moved, and not among
\* ids of process ids and int values at the ends of their ranges.
C22_GlobalIdInjective ==
    /\ \A t \in Transactions : \A m, n \in DOMAIN idLog[t] :
           idLog[t][m].global_id = idLog[t][n].global_id =>
               /\ idLog[t][m].pid = idLog[t][n].pid
               /\ idLog[t][m].value = idLog[t][n].value
    /\ SamplesInjective

\* A snapshot has moved ids of two processes whose high halves are equal: a
\* negative counter value of one process, a positive one of the other.
C22_Witness ==
    \E t \in Transactions : \E m, n \in DOMAIN idLog[t] :
        /\ idLog[t][m].pid # idLog[t][n].pid
        /\ idLog[t][m].value < 0
        /\ idLog[t][n].value > 0
        /\ idLog[t][m].global_id.high = idLog[t][n].global_id.high
        /\ idLog[t][m].local_id # idLog[t][n].local_id

\* C15 as stated: in a transaction only the first create() call starts a
\* round; no later call starts another one.
C15_OneRoundPerTransaction ==
    \A t \in Transactions : rounds[t] <= 1

\* C15, amended: once create() has stored a snapshot in the transaction, every
\* later call returns that snapshot, no call starts another round, and the
\* snapshot's rows stay as read, whatever happens to the store.
C15_SnapshotKeptOnceBuilt ==
    [][\A t \in Transactions :
          tra_db_snapshot[t] # 0 =>
              /\ tra_db_snapshot'[t] = tra_db_snapshot[t]
              /\ lastCreate'[t].snapshot = tra_db_snapshot[t]
              /\ rounds'[t] = rounds[t]
              /\ rows'[t] = rows[t]
              /\ tpc'[t] = "idle"]_vars

\* A transaction whose first constructor raised and whose second one built
\* the snapshot; a later call got the same snapshot after the store changed.
C15_Witness ==
    \E t \in Transactions :
        /\ rounds[t] = 2
        /\ tra_db_snapshot[t] # 0
        /\ lastCreate[t] = [snapshot |-> tra_db_snapshot[t], built |-> FALSE]
        /\ rows[t] < storeVersion


-----------------------------------------------------------------------------
(* A string field on its way into the record: the charset the constructor  *)
(* passes to putField (line 525) and putField's VALUE_STRING branch.       *)

MaxLen == 3

\* Bytes on both sides of 0x7F: 'A', DEL, 0x80, 0xC3, 0xFF.
Bytes == {65, 127, 128, 195, 255}

QuestionMark == 63

RECURSIVE SeqsUpTo(_, _)
SeqsUpTo(S, n) ==
    IF n = 0 THEN {<<>>}
    ELSE LET shorter == SeqsUpTo(S, n - 1)
         IN  shorter \cup {Append(q, b) : q \in {r \in shorter : Len(r) = n - 1}, b \in S}

\* The charsets of attachments and of text slots.
Charsets == {"CS_NONE", "CS_METADATA"}

ttype_metadata == "CS_METADATA"

\* The constructor's choice of the charset it passes to putField.
parseCharset(attachmentCharset) == ttype_metadata

(* putField's VALUE_STRING branch: the descriptor it makes for MOV_move    *)
(* from the field's bytes, the charset argument and the slot's charset.    *)
makeFromDesc(data, charset, toCharset) ==
    IF charset = "CS_NONE" /\ toCharset = "CS_METADATA"
    THEN [made |-> TRUE, charset |-> "CS_ASCII", length |-> Len(data),
          text |-> [k \in 1..Len(data) |->
                       IF data[k] > 127 THEN QuestionMark ELSE data[k]]]
    ELSE [made |-> TRUE, charset |-> charset, length |-> Len(data), text |-> data]

\* The parse loop moves the field: putField(tdbb, record, dumpField, charset).
PutString ==
    /\ ~from_desc.made
    /\ from_desc' = makeFromDesc(field.data, parseCharset(att_charset), to_charset)
    /\ UNCHANGED <<field, att_charset, to_charset>>

InitField ==
    /\ field \in [type : {"VALUE_STRING"}, data : SeqsUpTo(Bytes, MaxLen)]
    /\ att_charset \in Charsets
    /\ to_charset \in Charsets
    /\ from_desc = NoDesc

FieldOnly == UNCHANGED <<storeVars, filterVars, protoVars, snapVars, guardVars,
                          refVars,
                          ptrVars,
                          lockVars>>

NextField == PutString /\ FieldOnly

FieldInit == InitField /\ StoreParked /\ FilterParked /\ ProtoParked /\ SnapParked /\ GuardParked /\ RefParked /\ PtrParked /\ LocksParked

SpecField == FieldInit /\ [][NextField]_vars

\* Every byte above 0x7F replaced by '?', the others kept.
Substituted(data) ==
    [k \in 1..Len(data) |-> IF data[k] <= 127 THEN data[k] ELSE QuestionMark]

\* C21: a string of an attachment with charset NONE that goes into a slot of
\* the metadata charset is handed on with every byte above 0x7F replaced by
\* '?', every other byte kept, and its length unchanged.
C21_NonAsciiSubstituted ==
    (from_desc.made /\ att_charset = "CS_NONE" /\ to_charset = "CS_METADATA") =>
        /\ from_desc.length = Len(field.data)
        /\ from_desc.text = Substituted(field.data)


-----------------------------------------------------------------------------
(* Further properties of the monitor lock round.                           *)

\* C14: a constructor whose LCK_lock(LCK_EX) was not granted does not go on
\* to read the store and parse what it read.
C14_DeniedLockAbortsSnapshot ==
    \A d \in Dbbs : temp_lock[d] = "denied" => wpc[d] # "parse"


-----------------------------------------------------------------------------
(* Properties of blockingAst and DBB_monitor_off (checked under SpecAst).  *)

\* The blockingAst call of instance d takes a step.
AstStep(d) == apc'[d] # apc[d]

\* The constructor thread of instance d takes a step.
CtorStep(d) == wpc'[d] # wpc[d]

\* C23: a blockingAst call changes the shared monitor lock only in the step
\* after its dumpData call has ended, well or with a logged error, and sets
\* DBB_monitor_off only in the step after that release, with the lock
\* released; in both steps it holds dbb_mon_sync.
C23_AstDumpsReleasesMarks ==
    [][\A d \in Dbbs :
          AstStep(d) =>
              /\ dbb_monitor_lock'[d] # dbb_monitor_lock[d] =>
                     /\ apc[d] = "release"
                     /\ dbb_mon_sync[d] = "ast"
              /\ DBB_monitor_off'[d] # DBB_monitor_off[d] =>
                     /\ apc[d] = "mark"
                     /\ dbb_mon_sync[d] = "ast"
                     /\ dbb_monitor_lock[d] = "none"]_vars

\* A blockingAst call made to a holder of the shared lock has dumped with an
\* error, released the lock and is about to set the flag.
C23_Witness ==
    \E d \in Dbbs :
        /\ apc[d] = "mark"
        /\ astFresh[d]
        /\ astFailed[d]
        /\ dbb_mon_sync[d] = "ast"
        /\ dbb_monitor_lock[d] = "none"
        /\ ~DBB_monitor_off[d]

\* C24: among the blockingAst calls made to an instance since its
\* DBB_monitor_off was last cleared, one performs dumpData and LCK_release.
\* (A call is made to a holder of the lock, so none follows the one that
\* performed before the flag is cleared again: when such a call has returned,
\* the last one is the one that performed.)
C24_OneAstPerforms ==
    \A d \in Dbbs :
        lastAst[d].fresh => (lastAst[d].ran /\ lastAst[d].released)

\* C32: under fair scheduling, with every blocking AST delivered, a
\* constructor that waits for the exclusive monitor lock gets it, releases it
\* and completes.
C32_WaitingConstructorCompletes ==
    \A d \in AttachedDbbs :
        (wpc[d] = "wait" /\ temp_lock[d] = "waiting")
            ~> (temp_lock[d] = "granted" \/ wpc[d] # "wait")

\* C29: DBB_monitor_off of an instance changes only in a step of a thread
\* that holds the instance's dbb_mon_sync: the constructor in its latch
\* scope, blockingAst in its, the re-acquisition with the latch free for it.
C29_FlagChangesUnderLatch ==
    [][\A d \in Dbbs :
          DBB_monitor_off'[d] # DBB_monitor_off[d] =>
              IF CtorStep(d)
              THEN dbb_mon_sync[d] = "ctor" \/ dbb_mon_sync'[d] = "ctor"
              ELSE IF AstStep(d)
                   THEN dbb_mon_sync[d] = "ast"
                   ELSE dbb_mon_sync[d] = "free"]_vars

\* C30: an instance whose DBB_monitor_off is set does not hold the shared
\* monitor lock.
C30_FlagSetMeansLockReleased ==
    \A d \in Dbbs : DBB_monitor_off[d] => dbb_monitor_lock[d] = "none"


-----------------------------------------------------------------------------
(* Further properties of the store.                                        *)

\* ~MonitoringData of instance i runs its cleanup() and file test in this step.
Destroys(i) == pc[i] = "dcleanup" /\ pc'[i] = "gone"

\* C16: a destructor removes the mapped file exactly when the store holds no
\* element once its own cleanup() is done.
C16_FileRemovedIffStoreEmpty ==
    [][\A i \in Instances :
          Destroys(i) => (fileRemoved'[i] = "removed" <=> elems' = <<>>)]_vars

\* One destructor kept the file for the elements of others, a later one removed it.
C16_Witness ==
    \E i, j \in Instances :
        /\ fileRemoved[i] = "removed"
        /\ fileRemoved[j] = "kept"
        /\ elems = <<>>

\* C17: where the region's layout version is not MONITOR_VERSION, no opener
\* gets past its constructor: none reaches a store operation.
C17_MismatchedOpenerRejected ==
    mhb_version # MONITOR_VERSION =>
        \A i \in Instances : pc[i] \in {"closed", "aborted"}

\* Instance i is leaving setup() or write() by the error of ensureSpace.
Unwinding(i) == pc[i] = "unwind" /\ space[i].called /\ space[i].result.raised

\* C18: a setup() or write() whose ensureSpace could not grow the region
\* raises 'monitor table exhausted' and leaves used, allocated and the
\* elements as they were.
C18_ExhaustedRaisesMontabexh ==
    \A i \in Instances :
        Unwinding(i) =>
            /\ space[i].result.error = "isc_montabexh"
            /\ used = space[i].used
            /\ allocated = space[i].allocated
            /\ TiledEnd(elems) = used

\* C19: an ensureSpace(n) repeated on the header a successful ensureSpace(n)
\* left calls no remapFile, whatever it would answer, and leaves
\* header.allocated and the mapped length as they are.
C19_EnsureSpaceIdempotent ==
    \A i \in Instances :
        (space[i].called /\ ~space[i].result.raised) =>
            \A remapOk \in BOOLEAN :
                LET first == space[i].result
                    second == ensureSpace(space[i].used, first.allocated, first.mapped,
                                          space[i].length, remapOk, profile.objectMap)
                IN  /\ ~second.raised
                    /\ ~second.remapped
                    /\ second.allocated = first.allocated
                    /\ second.mapped = first.mapped

\* The successful first call had to grow the region.
C19_Witness ==
    \E i \in Instances :
        /\ space[i].called
        /\ ~space[i].result.raised
        /\ space[i].result.remapped
        /\ space[i].result.allocated > space[i].allocated

\* Instance i calls ensureSpace(n) in this step with used + n > allocated.
GrowCall(i) ==
    /\ space'[i] # space[i]
    /\ space'[i].called
    /\ space'[i].used + space'[i].length > space'[i].allocated

\* C20: header.allocated never decreases, and every ensureSpace(n) called
\* with used + n > allocated leaves it larger.
C20_AllocatedGrowsOnEveryCall ==
    [][/\ allocated' >= allocated
       /\ \A i \in Instances : GrowCall(i) => allocated' > allocated]_vars

\* C20 as the code has it: header.allocated never decreases; an
\* ensureSpace(n) called with used + n > allocated leaves it larger when it
\* returns and unchanged when it raises.
C20_AllocatedGrowsWhenCallReturns ==
    [][/\ allocated' >= allocated
       /\ \A i \in Instances :
              GrowCall(i) => IF space'[i].result.raised
                             THEN allocated' = allocated
                             ELSE allocated' > allocated]_vars

\* The region has grown twice, the second time in a write().
C20_Witness ==
    \E i \in Instances :
        /\ pc[i] = "write"
        /\ space[i].called
        /\ space[i].used + space[i].length > space[i].allocated
        /\ space[i].allocated > DEFAULT_SIZE
        /\ allocated > space[i].allocated


\* C25: when the constructor calls read(), the store holds the element of the
\* caller's (process_id, local_id), and read() leaves with self_dbb_offset
\* other than 0, whatever other instances and the blockingAst calls of the
\* caller's own instance did to the store since the constructor's dumpData.
C25_ReadFindsOwnElement ==
    \A i \in Instances :
        /\ pc[i] = "read" => HasOwn(elems, i)
        /\ rd[i].done => rd[i].self_dbb_offset # 0

\* A read() made after a blockingAst dumpData of the same instance raised
\* while the constructor waited, with another instance's element in the store.
C25_Witness ==
    \E i \in Instances :
        /\ rd[i].done
        /\ ctorDump[i] = "astFailed"
        /\ rd[i].self_dbb_offset # 0
        /\ Len(rd[i].before) >= 2

\* The elements of s whose process is alive, in the order of s.
Survivors(s, live) == SelectSeq(s, LAMBDA e : live[e.processId])

\* The aligned sizes of the elements of s whose process is dead, summed.
DeadSizes(s, live) == TiledEnd(s) - TiledEnd(Survivors(s, live))

\* C26: read() leaves in the store the elements of live processes, as they
\* were and in the order they had, lowers header.used by the aligned sizes of
\* the others, and leaves header.allocated alone.
C26_ReadRemovesExactlyDead ==
    [][\A i \in Instances :
          (pc[i] = "read" /\ pc'[i] = "rrelease") =>
              /\ elems' = Survivors(elems, alive)
              /\ used' = used - DeadSizes(elems, alive)
              /\ allocated' = allocated]_vars

\* A read() that removed the first element of three and kept the other two.
C26_Witness ==
    \E i \in Instances :
        /\ rd[i].done
        /\ Len(rd[i].before) = 3
        /\ ~rd[i].live[rd[i].before[1].processId]
        /\ elems = SubSeq(rd[i].before, 2, 3)
        /\ used < rd[i].usedBefore

\* C27: inside a Guard the caller's mapped length covers header.allocated,
\* and so the bytes up to header.used that read() goes through.
C27_MappedCoversAllocated ==
    \A i \in Instances :
        /\ pc[i] \in Critical => mapped[i] >= allocated
        /\ rd[i].done => (rd[i].usedBefore <= mapped[i] /\ ~rd[i].bad)

\* An instance that wrote its short element first has read the store after
\* the other instance grew the region with an element beyond the first mapping.
C27_Witness ==
    \E i \in Instances :
        /\ rd[i].done
        /\ allocated > DEFAULT_SIZE
        /\ mapped[i] = allocated
        /\ Len(rd[i].before) = 2
        /\ IsOwn(rd[i].before[1], i)
        /\ rd[i].usedBefore > DEFAULT_SIZE
        /\ ChunkBytes(rd[i].buffer) = Lengths(rd[i].before)

\* C28: the region mutex is held only inside a Guard: an acquire() that
\* raised has not left it locked.
C28_FailedAcquireFreesMutex ==
    \A i \in Instances : mutex = i => pc[i] \in Critical


\* A write() of instance i that returned: one more putRecord of its Writer.
Written(i) == pc[i] = "write" /\ nwrites'[i] = nwrites[i] + 1

\* C33: a write(offset, ...) made inside a dumpData window finds at offset
\* the last element of the store (offset plus its aligned size is
\* header.used); the elements before it are left as they were, and of the
\* written one only length and payload change.
C33_WriteTargetsLastElement ==
    [][\A i \in Instances :
          Written(i) =>
              LET k == IndexAt(elems, woffset[i])
              IN  /\ k # 0
                  /\ k = Len(elems)
                  /\ woffset[i] + ElemSize(elems[k]) = used
                  /\ Len(elems') = Len(elems)
                  /\ \A j \in 1..Len(elems) : j # k => elems'[j] = elems[j]
                  /\ elems'[k].processId = elems[k].processId
                  /\ elems'[k].localId = elems[k].localId]_vars

\* The second write() of a window has grown the last element, which lies
\* behind the element of another instance.
C33_Witness ==
    \E i \in Instances :
        /\ pc[i] = "write"
        /\ nwrites[i] = 2
        /\ Len(elems) >= 2
        /\ IsOwn(elems[Len(elems)], i)
        /\ Len(elems[Len(elems)].data) = 2
        /\ ~IsOwn(elems[1], i)

(***************************************************************************)
(* Mutex, MutexLockGuard, MutexUnlockGuard and MutexCheckoutGuard          *)
(* (common/classes/locks.h).  The mutex is recursive: the Windows build    *)
(* wraps a CRITICAL_SECTION, and assertLocked() enters a mutex its thread  *)
(* already owns and expects lockCount > 1.                                 *)
(***************************************************************************)

\* The deepest a thread enters one mutex by itself before it builds a guard.
MaxDepth == 2

\* How many times thread t has entered mutex m and not left it.
lockCountOf(m, t) == IF mtx[m].owner = t THEN mtx[m].lockCount ELSE 0

\* The mutexes thread t holds.
Held(t) == {m \in Mutexes : mtx[m].owner = t}

\* Mutex::enter(): waits while another thread owns the mutex.
enter(m, t) ==
    /\ mtx[m].owner \in {0, t}
    /\ mtx' = [mtx EXCEPT ![m] = [owner |-> t, lockCount |-> @.lockCount + 1]]

\* Mutex::leave(): one level of the owner's hold.
leave(m, t) ==
    /\ mtx[m].owner = t
    /\ mtx' = [mtx EXCEPT ![m] = [owner |-> IF @.lockCount = 1 THEN 0 ELSE t,
                                  lockCount |-> @.lockCount - 1]]

\* The members the other way round: the lock guard declared first.
MemberOrderLockFirst == <<"lock", "unlock">>

\* The members of MutexCheckoutGuard in declaration order: constructed in
\* this order, destroyed in the reverse one.
MemberOrder == <<"unlock", "lock">>

\* MutexUnlockGuard(mtxCout) leaves, MutexLockGuard(mtxLock) enters.
ConstructMember(member, t) ==
    IF member = "unlock" THEN leave("mtxCout", t) ELSE enter("mtxLock", t)

\* ~MutexUnlockGuard enters mtxCout again, ~MutexLockGuard leaves mtxLock.
DestroyMember(member, t) ==
    IF member = "unlock" THEN enter("mtxCout", t) ELSE leave("mtxLock", t)

\* Code outside the guard enters a mutex.
Enter(t, m) ==
    /\ gpc[t] = "run"
    /\ lockCountOf(m, t) < MaxDepth
    /\ enter(m, t)
    /\ UNCHANGED <<gpc, atEntry>>

\* Code outside the guard leaves a mutex it holds.
Leave(t, m) ==
    /\ gpc[t] = "run"
    /\ leave(m, t)
    /\ UNCHANGED <<gpc, atEntry>>

\* MutexCheckoutGuard(mtxCout, mtxLock), first member; the caller holds mtxCout.
CheckoutFirst(t) ==
    /\ gpc[t] = "run"
    /\ mtx["mtxCout"].owner = t
    /\ ConstructMember(MemberOrder[1], t)
    /\ atEntry' = [atEntry EXCEPT ![t] = [m \in Mutexes |-> lockCountOf(m, t)]]
    /\ gpc' = [gpc EXCEPT ![t] = "constructing"]

\* MutexCheckoutGuard(mtxCout, mtxLock), second member.
CheckoutSecond(t) ==
    /\ gpc[t] = "constructing"
    /\ ConstructMember(MemberOrder[2], t)
    /\ gpc' = [gpc EXCEPT ![t] = "scope"]
    /\ UNCHANGED atEntry

\* End of the guard's scope: the member constructed last goes first.
ScopeEndFirst(t) ==
    /\ gpc[t] = "scope"
    /\ DestroyMember(MemberOrder[2], t)
    /\ gpc' = [gpc EXCEPT ![t] = "destroying"]
    /\ UNCHANGED atEntry

\* End of the guard's scope: the member constructed first goes last.
ScopeEndSecond(t) ==
    /\ gpc[t] = "destroying"
    /\ DestroyMember(MemberOrder[1], t)
    /\ gpc' = [gpc EXCEPT ![t] = "after"]
    /\ UNCHANGED atEntry

\* The code after the scope goes on.
Resume(t) ==
    /\ gpc[t] = "after"
    /\ gpc' = [gpc EXCEPT ![t] = "run"]
    /\ atEntry' = [atEntry EXCEPT ![t] = NoEntry]
    /\ UNCHANGED mtx

\* A step of the guards leaves the other parts alone.
GuardOnly == UNCHANGED <<storeVars, filterVars, protoVars, snapVars, fieldVars,
                          refVars,
                          ptrVars,
                          lockVars>>

NextGuard ==
    \/ \E t \in Threads, m \in Mutexes : Enter(t, m) /\ GuardOnly
    \/ \E t \in Threads, m \in Mutexes : Leave(t, m) /\ GuardOnly
    \/ \E t \in Threads : CheckoutFirst(t) /\ GuardOnly
    \/ \E t \in Threads : CheckoutSecond(t) /\ GuardOnly
    \/ \E t \in Threads : ScopeEndFirst(t) /\ GuardOnly
    \/ \E t \in Threads : ScopeEndSecond(t) /\ GuardOnly
    \/ \E t \in Threads : Resume(t) /\ GuardOnly

\* The mutexes free; everything else parked.
GuardInit == InitGuard /\ StoreParked /\ FilterParked /\ ProtoParked /\ SnapParked /\ FieldParked /\ RefParked /\ PtrParked /\ LocksParked

SpecGuard == GuardInit /\ [][NextGuard]_vars

\* C36 as stated: through the guard the thread never holds both mutexes, it
\* holds exactly mtxLock inside the scope and exactly mtxCout after it.
C36_HoldsExactlyOneMutex ==
    \A t \in Threads :
        /\ gpc[t] \in {"constructing", "scope", "destroying"} => Cardinality(Held(t)) <= 1
        /\ gpc[t] = "scope" => Held(t) = {"mtxLock"}
        /\ gpc[t] = "after" => Held(t) = {"mtxCout"}

\* C36 (amended): the guard leaves mtxCout (one level) before it enters
\* mtxLock, and at the end of the scope leaves mtxLock before it enters
\* mtxCout again; a thread that held mtxCout once and mtxLock not at all when
\* the guard was constructed holds neither between the two steps, exactly
\* mtxLock inside the scope and exactly mtxCout after it.
C36_CheckoutSwapsMutexes ==
    \A t \in Threads :
        LET c == lockCountOf("mtxCout", t)
            l == lockCountOf("mtxLock", t)
            e == atEntry[t]
        IN  /\ gpc[t] = "constructing" => c = e["mtxCout"] - 1 /\ l = e["mtxLock"]
            /\ gpc[t] = "scope" => c = e["mtxCout"] - 1 /\ l = e["mtxLock"] + 1
            /\ gpc[t] = "destroying" => c = e["mtxCout"] - 1 /\ l = e["mtxLock"]
            /\ gpc[t] = "after" => c = e["mtxCout"] /\ l = e["mtxLock"]
            /\ (e["mtxCout"] = 1 /\ e["mtxLock"] = 0) =>
                  /\ gpc[t] \in {"constructing", "destroying"} => Held(t) = {}
                  /\ gpc[t] = "scope" => Held(t) = {"mtxLock"}
                  /\ gpc[t] = "after" => Held(t) = {"mtxCout"}

\* A thread inside the scope of its guard, having held mtxCout once, while
\* the other thread has taken the mutex it checked out of.
C36_Witness ==
    \E t \in Threads, u \in Threads :
        /\ t # u
        /\ gpc[t] = "scope"
        /\ atEntry[t] = [m \in Mutexes |-> IF m = "mtxCout" THEN 1 ELSE 0]
        /\ mtx["mtxLock"].owner = t
        /\ mtx["mtxCout"].owner = u

(***************************************************************************)
(* RefCounted (common/classes/RefCounted.h): addRef() and release() of     *)
(* concurrent threads on one object.  The increment and the decrement are  *)
(* atomic (AtomicCounter); release() tests its local copy afterwards.  A   *)
(* call on the object after "delete this" uses freed memory: it either     *)
(* finds the bytes as they were and goes through, or stops the thread.     *)
(***************************************************************************)

\* The number of addRef() calls of a behaviour.
MaxRefs == 3

\* What a use of the freed object may do.
FreedOutcomes == {"stale", "fault"}

\* The test made on the counter the thread reads again after its decrement.
ShouldDeleteRereads(local, current) == current = 0

\* if (!refCnt): the test of release() on the value its own decrement returned.
ShouldDelete(local, current) == local = 0

\* RefCounted::addRef on the live object.
AddRef(t) ==
    /\ rpc[t] = "idle"
    /\ deletes = 0
    /\ nAddRef < MaxRefs
    /\ m_refCnt' = m_refCnt + 1
    /\ nAddRef' = nAddRef + 1
    /\ late' = (late \/ zeroed)
    /\ UNCHANGED <<deletes, deleters, rpc, refCnt, nRelease, zeroed, lateOk>>

\* RefCounted::addRef after "delete this".
AddRefFreed(t) ==
    /\ rpc[t] = "idle"
    /\ deletes > 0
    /\ nAddRef < MaxRefs
    /\ late' = TRUE
    /\ \E outcome \in FreedOutcomes :
          IF outcome = "stale"
          THEN /\ m_refCnt' = m_refCnt + 1
               /\ nAddRef' = nAddRef + 1
               /\ lateOk' = TRUE
               /\ rpc' = rpc
          ELSE /\ rpc' = [rpc EXCEPT ![t] = "stopped"]
               /\ UNCHANGED <<m_refCnt, nAddRef, lateOk>>
    /\ UNCHANGED <<deletes, deleters, refCnt, nRelease, zeroed>>

\* RefCounted::release, "const int refCnt = --m_refCnt", on the live object;
\* the callers never release more often than addRef() has returned.
ReleaseDecrement(t) ==
    /\ rpc[t] = "idle"
    /\ deletes = 0
    /\ nRelease < nAddRef
    /\ m_refCnt' = m_refCnt - 1
    /\ refCnt' = [refCnt EXCEPT ![t] = m_refCnt - 1]
    /\ rpc' = [rpc EXCEPT ![t] = "decremented"]
    /\ nRelease' = nRelease + 1
    /\ zeroed' = (zeroed \/ m_refCnt = 1)
    /\ late' = (late \/ zeroed)
    /\ UNCHANGED <<deletes, deleters, nAddRef, lateOk>>

\* RefCounted::release, the decrement, after "delete this".
ReleaseFreed(t) ==
    /\ rpc[t] = "idle"
    /\ deletes > 0
    /\ nRelease < nAddRef
    /\ late' = TRUE
    /\ \E outcome \in FreedOutcomes :
          IF outcome = "stale"
          THEN /\ m_refCnt' = m_refCnt - 1
               /\ refCnt' = [refCnt EXCEPT ![t] = m_refCnt - 1]
               /\ rpc' = [rpc EXCEPT ![t] = "decremented"]
               /\ nRelease' = nRelease + 1
               /\ lateOk' = TRUE
          ELSE /\ rpc' = [rpc EXCEPT ![t] = "stopped"]
               /\ UNCHANGED <<m_refCnt, refCnt, nRelease, lateOk>>
    /\ UNCHANGED <<deletes, deleters, nAddRef, zeroed>>

\* RefCounted::release, "if (!refCnt) delete this; return refCnt".
ReleaseTest(t) ==
    /\ rpc[t] = "decremented"
    /\ IF ShouldDelete(refCnt[t], m_refCnt)
       THEN /\ deletes' = deletes + 1
            /\ deleters' = deleters \cup {[thread |-> t, refCnt |-> refCnt[t]]}
       ELSE UNCHANGED <<deletes, deleters>>
    /\ rpc' = [rpc EXCEPT ![t] = "idle"]
    /\ UNCHANGED <<m_refCnt, refCnt, nAddRef, nRelease, zeroed, late, lateOk>>

\* A step of the counted object leaves the other parts alone.
RefOnly == UNCHANGED <<storeVars, filterVars, protoVars, snapVars, fieldVars, guardVars,
                        ptrVars,
                        lockVars>>

NextRef ==
    \/ \E t \in Threads : AddRef(t) /\ RefOnly
    \/ \E t \in Threads : AddRefFreed(t) /\ RefOnly
    \/ \E t \in Threads : ReleaseDecrement(t) /\ RefOnly
    \/ \E t \in Threads : ReleaseFreed(t) /\ RefOnly
    \/ \E t \in Threads : ReleaseTest(t) /\ RefOnly

\* The object just constructed; everything else parked.
RefInit == InitRef /\ StoreParked /\ FilterParked /\ ProtoParked /\ SnapParked /\ FieldParked /\ GuardParked /\ PtrParked /\ LocksParked

SpecRef == RefInit /\ [][NextRef]_vars

\* No release() is between its decrement and its test.
NoReleaseRunning == \A t \in Threads : rpc[t] # "decremented"

\* The object is deleted once the counter has returned to 0, once only, and
\* by a release() whose own decrement returned 0.
DeletedOnceByLastRelease ==
    /\ deletes <= 1
    /\ deletes = Cardinality(deleters)
    /\ deletes > 0 => zeroed
    /\ (zeroed /\ NoReleaseRunning) => deletes = 1
    /\ \A d \in deleters : d.refCnt = 0

MaxOps == 5

\* The objects a caller can hand in: those not deleted.
Live == {o \in Objects : freed[o] = 0}

\* The number of RefPtr instances pointing at object o.
Pointing(o) == Cardinality({s \in Slots : ptr[s] = o})

\* The counters and the deletions as one value.
Heap == [counts |-> counts, freed |-> freed]

\* o->addRef(), skipped for NULL as "if (p)" does.
addRefTo(h, o) ==
    IF o = NULL THEN h ELSE [h EXCEPT !.counts[o] = @ + 1]

\* o->release(), skipped for NULL as "if (tmp)" does: the object is deleted
\* when its counter reaches 0.
releaseOf(h, o) ==
    IF o = NULL THEN h
    ELSE [counts |-> [h.counts EXCEPT ![o] = @ - 1],
          freed |-> IF h.counts[o] = 1 THEN [h.freed EXCEPT ![o] = @ + 1] ELSE h.freed]

SetHeap(h) == counts' = h.counts /\ freed' = h.freed

\* assign() with its two calls exchanged.
AssignOrderReleaseFirst == <<"release", "addRef">>

\* The calls of assign() in program order: p->addRef(), then tmp->release().
AssignOrder == <<"addRef", "release">>

AssignCall(call, p, old) ==
    IF call = "addRef" THEN SetHeap(addRefTo(Heap, p)) ELSE SetHeap(releaseOf(Heap, old))

\* explicit RefPtr(T* p)
Construct(s, p) ==
    /\ asg.stage = "none"
    /\ nops < MaxOps
    /\ ptr[s] = NoPtr
    /\ ptr' = [ptr EXCEPT ![s] = p]
    /\ SetHeap(addRefTo(Heap, p))
    /\ op' = [kind |-> "construct", slot |-> s, p |-> p]
    /\ nops' = nops + 1
    /\ UNCHANGED asg

\* RefPtr(const RefPtr& r)
CopyConstruct(s, r) ==
    /\ asg.stage = "none"
    /\ nops < MaxOps
    /\ ptr[s] = NoPtr
    /\ ptr[r] # NoPtr
    /\ ptr' = [ptr EXCEPT ![s] = ptr[r]]
    /\ SetHeap(addRefTo(Heap, ptr[r]))
    /\ op' = [kind |-> "copy", slot |-> s, p |-> ptr[r]]
    /\ nops' = nops + 1
    /\ UNCHANGED asg

\* ~RefPtr()
Destruct(s) ==
    /\ asg.stage = "none"
    /\ nops < MaxOps
    /\ ptr[s] # NoPtr
    /\ ptr' = [ptr EXCEPT ![s] = NoPtr]
    /\ SetHeap(releaseOf(Heap, ptr[s]))
    /\ op' = [kind |-> "destruct", slot |-> s, p |-> ptr[s]]
    /\ nops' = nops + 1
    /\ UNCHANGED asg

\* operator=(T* p) and operator=(const RefPtr& r), both assign(p): the test
\* "if (ptr == p) return ptr", else the first call.
AssignFirst(s, p) ==
    /\ asg.stage = "none"
    /\ nops < MaxOps
    /\ ptr[s] # NoPtr
    /\ op' = [kind |-> "assign", slot |-> s, p |-> p]
    /\ nops' = nops + 1
    /\ IF ptr[s] = p
       THEN UNCHANGED <<ptr, counts, freed, asg>>
       ELSE /\ AssignCall(AssignOrder[1], p, ptr[s])
            /\ asg' = [stage |-> "first", slot |-> s, p |-> p, old |-> ptr[s]]
            /\ UNCHANGED ptr

\* assign(): the exchange of ptr and the second call.
AssignSecond ==
    /\ asg.stage = "first"
    /\ ptr' = [ptr EXCEPT ![asg.slot] = asg.p]
    /\ AssignCall(AssignOrder[2], asg.p, asg.old)
    /\ asg' = NoAsg
    /\ UNCHANGED <<op, nops>>

\* A step of the RefPtr instances leaves the other parts alone.
PtrOnly == UNCHANGED <<storeVars, filterVars, protoVars, snapVars, fieldVars, guardVars, refVars,
                        lockVars>>

NextPtr ==
    \/ \E s \in Slots, p \in Live \cup {NULL} : Construct(s, p) /\ PtrOnly
    \/ \E s \in Slots, r \in Slots : CopyConstruct(s, r) /\ PtrOnly
    \/ \E s \in Slots : Destruct(s) /\ PtrOnly
    \/ \E s \in Slots, p \in Live \cup {NULL} : AssignFirst(s, p) /\ PtrOnly
    \/ AssignSecond /\ PtrOnly

\* No RefPtr yet; everything else parked.
PtrInit == InitPtr /\ StoreParked /\ FilterParked /\ ProtoParked /\ SnapParked /\ FieldParked /\ GuardParked /\ RefParked /\ LocksParked

SpecPtr == PtrInit /\ [][NextPtr]_vars

\* Between operations the counter of every object is the number of RefPtr
\* instances pointing at it, and no RefPtr points at a deleted object; inside
\* an assignment the new target is counted once more than it is pointed at
\* while the old target is still counted and not deleted.
CountsMatch ==
    /\ \A o \in Objects : freed[o] <= 1 /\ (freed[o] = 1 => Pointing(o) = 0)
    /\ asg.stage = "none" => \A o \in Live : counts[o] = Pointing(o)
    /\ asg.stage = "first" =>
          /\ asg.p # NULL => (asg.p \in Live /\ counts[asg.p] = Pointing(asg.p) + 1)
          /\ asg.old # NULL => (asg.old \in Live /\ counts[asg.old] = Pointing(asg.old))
          /\ \A o \in Live \ {asg.p} : counts[o] = Pointing(o)

\* An object is deleted in the step in which the last RefPtr pointing at it
\* goes away, and in no other.
DeletedWithLastPointer ==
    \A o \in Objects :
        (freed'[o] = freed[o] + 1) <=>
            (Pointing(o) > 0 /\ Cardinality({s \in Slots : ptr'[s] = o}) = 0)

\* An assignment of the pointer the RefPtr holds returns with nothing changed.
SameAssignChangesNothing ==
    (nops' = nops + 1 /\ op'.kind = "assign" /\ ptr[op'.slot] = op'.p) =>
        UNCHANGED <<ptr, counts, freed, asg>>

\* C35: the reference count of each object is the number of RefPtr instances
\* pointing at it, the object is deleted exactly when that number drops to 0,
\* assigning the pointer already held changes nothing, and assign() counts
\* the new target before it releases the old one.
C35_CountEqualsPointers ==
    []CountsMatch /\ [][DeletedWithLastPointer /\ SameAssignChangesNothing]_vars

\* An assignment under way that takes the last pointer from object 1 and
\* gives object 2 its second one, after object 3 was deleted with its last
\* RefPtr.
C35_Witness ==
    /\ asg.stage = "first"
    /\ asg.old = 1
    /\ asg.p = 2
    /\ counts[1] = 1
    /\ counts[2] = 2
    /\ Pointing(2) = 1
    /\ freed[3] = 1

(***************************************************************************)
(* The lock order of the constructor, blockingAst and dumpData, thread by  *)
(* thread.  Attachment::SyncGuard enters the latch of an attachment and     *)
(* leaves it at the end of its scope; Attachment::Checkout leaves the latch *)
(* of the calling thread's own attachment, which the thread holds while it  *)
(* works in the engine, and enters it again at the end of its scope.  The   *)
(* list of system attachments is taken as empty.                            *)
(***************************************************************************)

\* The place of each lock in the list, outermost first.
Rank(l) ==
    CASE l = "monitor" -> 1
      [] l = "dbb_mon_sync" -> 2
      [] l = "mutex" -> 3
      [] OTHER -> 4

\* The locks of the list thread t holds.
HeldLocks(t) ==
    {l \in Latches : latchOwner[l] = t} \cup (IF exHolder = t THEN {"monitor"} ELSE {})

\* The lock thread t is about to wait for, "none" when it is at no acquisition.
Wanted(t) ==
    CASE lpc[t] \in {"c406", "a355"} -> "dbb_mon_sync"
      [] lpc[t] \in {"d754", "c443"} -> "mutex"
      [] lpc[t] = "d772" -> AttLatch(attIdx[t])
      [] lpc[t] = "d788" /\ t \in AttThreads -> AttLatch(t)
      [] lpc[t] = "c431" -> "monitor"
      [] OTHER -> "none"

\* A latch is entered when no thread owns it.
TakeLatch(l, t) ==
    /\ latchOwner[l] = 0
    /\ latchOwner' = [latchOwner EXCEPT ![l] = t]

DropLatch(l, t) ==
    /\ latchOwner[l] = t
    /\ latchOwner' = [latchOwner EXCEPT ![l] = 0]

GoTo(t, line) == lpc' = [lpc EXCEPT ![t] = line]

\* A call of the attachment enters the engine: the thread takes the latch of
\* its attachment.
EnterEngine(t) ==
    /\ t \in AttThreads
    /\ lpc[t] = "out"
    /\ TakeLatch(AttLatch(t), t)
    /\ GoTo(t, "idle")
    /\ UNCHANGED <<sharedHeld, exHolder, monitorOff, attIdx, caller>>

\* The call returns: the thread leaves the latch of its attachment.
LeaveEngine(t) ==
    /\ t \in AttThreads
    /\ lpc[t] = "idle"
    /\ DropLatch(AttLatch(t), t)
    /\ GoTo(t, "out")
    /\ UNCHANGED <<sharedHeld, exHolder, monitorOff, attIdx, caller>>

\* A transaction of the thread's attachment asks for a snapshot.
StartSnapshot(t) ==
    /\ t \in AttThreads
    /\ lpc[t] = "idle"
    /\ GoTo(t, "c406")
    /\ UNCHANGED <<latchOwner, sharedHeld, exHolder, monitorOff, attIdx, caller>>

\* Constructor: SyncLockGuard monGuard(&dbb->dbb_mon_sync, SYNC_EXCLUSIVE).
CtorMonGuard(t) ==
    /\ lpc[t] = "c406"
    /\ TakeLatch("dbb_mon_sync", t)
    /\ GoTo(t, "c409")
    /\ UNCHANGED <<sharedHeld, exHolder, monitorOff, attIdx, caller>>

\* Constructor: LCK_release of the shared lock, the flag cleared, dumpData called.
CtorReleaseShared(t) ==
    /\ lpc[t] = "c409"
    /\ sharedHeld' = FALSE
    /\ monitorOff' = FALSE
    /\ caller' = [caller EXCEPT ![t] = "ctor"]
    /\ GoTo(t, "d754")
    /\ UNCHANGED <<latchOwner, exHolder, attIdx>>

\* dumpData: MonitoringData::Guard guard(...).
DumpGuard(t) ==
    /\ lpc[t] = "d754"
    /\ TakeLatch("mutex", t)
    /\ GoTo(t, "d768")
    /\ UNCHANGED <<sharedHeld, exHolder, monitorOff, attIdx, caller>>

\* dumpData: Attachment::Checkout attCout(old_attachment, true).
DumpCheckout(t) ==
    /\ lpc[t] = "d768"
    /\ IF t \in AttThreads THEN DropLatch(AttLatch(t), t) ELSE UNCHANGED latchOwner
    /\ attIdx' = [attIdx EXCEPT ![t] = 1]
    /\ GoTo(t, "d772")
    /\ UNCHANGED <<sharedHeld, exHolder, monitorOff, caller>>

\* dumpData: Attachment::SyncGuard attGuard(attachment).
DumpAttGuard(t) ==
    /\ lpc[t] = "d772"
    /\ TakeLatch(AttLatch(attIdx[t]), t)
    /\ GoTo(t, "d775")
    /\ UNCHANGED <<sharedHeld, exHolder, monitorOff, attIdx, caller>>

\* dumpData: the attachment dumped, its guard gone, the next attachment.
DumpAttDone(t) ==
    /\ lpc[t] = "d775"
    /\ DropLatch(AttLatch(attIdx[t]), t)
    /\ IF attIdx[t] = 2
       THEN GoTo(t, "d788") /\ attIdx' = [attIdx EXCEPT ![t] = 0]
       ELSE GoTo(t, "d772") /\ attIdx' = [attIdx EXCEPT ![t] = 2]
    /\ UNCHANGED <<sharedHeld, exHolder, monitorOff, caller>>

\* dumpData: the end of the try block, ~Checkout.
DumpCheckin(t) ==
    /\ lpc[t] = "d788"
    /\ IF t \in AttThreads THEN TakeLatch(AttLatch(t), t) ELSE UNCHANGED latchOwner
    /\ GoTo(t, "d794")
    /\ UNCHANGED <<sharedHeld, exHolder, monitorOff, attIdx, caller>>

\* dumpData returns: the Guard releases the region mutex.
DumpReturn(t) ==
    /\ lpc[t] = "d794"
    /\ DropLatch("mutex", t)
    /\ GoTo(t, IF caller[t] = "ctor" THEN "c420" ELSE "a372")
    /\ caller' = [caller EXCEPT ![t] = "none"]
    /\ UNCHANGED <<sharedHeld, exHolder, monitorOff, attIdx>>

\* Constructor: the scope of monGuard ends.
CtorMonUnguard(t) ==
    /\ lpc[t] = "c420"
    /\ DropLatch("dbb_mon_sync", t)
    /\ GoTo(t, "c431")
    /\ UNCHANGED <<sharedHeld, exHolder, monitorOff, attIdx, caller>>

\* Constructor: LCK_lock(tdbb, lock, LCK_EX, LCK_WAIT) returns with the lock.
CtorLockEx(t) ==
    /\ lpc[t] = "c431"
    /\ ~sharedHeld
    /\ exHolder = 0
    /\ exHolder' = t
    /\ GoTo(t, "c432")
    /\ UNCHANGED <<latchOwner, sharedHeld, monitorOff, attIdx, caller>>

\* Constructor: LCK_release(tdbb, lock) and the flag set.
CtorReleaseEx(t) ==
    /\ lpc[t] = "c432"
    /\ exHolder' = 0
    /\ monitorOff' = TRUE
    /\ GoTo(t, "c443")
    /\ UNCHANGED <<latchOwner, sharedHeld, attIdx, caller>>

\* Constructor: MonitoringData::Guard guard(...) around read().
CtorReadGuard(t) ==
    /\ lpc[t] = "c443"
    /\ TakeLatch("mutex", t)
    /\ GoTo(t, "c445")
    /\ UNCHANGED <<sharedHeld, exHolder, monitorOff, attIdx, caller>>

\* Constructor: read() done, the Guard gone.
CtorReadDone(t) ==
    /\ lpc[t] = "c445"
    /\ DropLatch("mutex", t)
    /\ GoTo(t, "idle")
    /\ UNCHANGED <<sharedHeld, exHolder, monitorOff, attIdx, caller>>

\* The process takes its shared lock again (outside the three functions).
ReacquireShared(t) ==
    /\ t \in AttThreads
    /\ lpc[t] = "idle"
    /\ monitorOff
    /\ ~sharedHeld
    /\ exHolder = 0
    /\ sharedHeld' = TRUE
    /\ monitorOff' = FALSE
    /\ UNCHANGED <<latchOwner, exHolder, lpc, attIdx, caller>>

\* The lock manager calls blockingAst: the shared lock is in some requester's way.
AstCall ==
    /\ lpc[AstThread] = "idle"
    /\ sharedHeld
    /\ GoTo(AstThread, "a353")
    /\ UNCHANGED <<latchOwner, sharedHeld, exHolder, monitorOff, attIdx, caller>>

\* blockingAst: the first test of DBB_monitor_off.
AstFirstTest ==
    /\ lpc[AstThread] = "a353"
    /\ GoTo(AstThread, IF monitorOff THEN "idle" ELSE "a355")
    /\ UNCHANGED <<latchOwner, sharedHeld, exHolder, monitorOff, attIdx, caller>>

\* blockingAst: SyncLockGuard monGuard(&dbb->dbb_mon_sync, SYNC_EXCLUSIVE).
AstMonGuard ==
    /\ lpc[AstThread] = "a355"
    /\ TakeLatch("dbb_mon_sync", AstThread)
    /\ GoTo(AstThread, "a357")
    /\ UNCHANGED <<sharedHeld, exHolder, monitorOff, attIdx, caller>>

\* blockingAst: the second test, then dumpData.
AstSecondTest ==
    /\ lpc[AstThread] = "a357"
    /\ IF monitorOff
       THEN GoTo(AstThread, "a375") /\ UNCHANGED caller
       ELSE GoTo(AstThread, "d754") /\ caller' = [caller EXCEPT ![AstThread] = "ast"]
    /\ UNCHANGED <<latchOwner, sharedHeld, exHolder, monitorOff, attIdx>>

\* blockingAst: LCK_release(tdbb, lock) and the flag set.
AstReleaseShared ==
    /\ lpc[AstThread] = "a372"
    /\ sharedHeld' = FALSE
    /\ monitorOff' = TRUE
    /\ GoTo(AstThread, "a375")
    /\ UNCHANGED <<latchOwner, exHolder, attIdx, caller>>

\* blockingAst: the scope of monGuard ends, return 0.
AstMonUnguard ==
    /\ lpc[AstThread] = "a375"
    /\ DropLatch("dbb_mon_sync", AstThread)
    /\ GoTo(AstThread, "idle")
    /\ UNCHANGED <<sharedHeld, exHolder, monitorOff, attIdx, caller>>

\* A step of the lock order leaves the other parts alone.
LocksOnly == UNCHANGED <<storeVars, filterVars, protoVars, snapVars, fieldVars, guardVars, refVars, ptrVars>>

NextLocks ==
    \/ \E t \in AttThreads : EnterEngine(t) /\ LocksOnly
    \/ \E t \in AttThreads : LeaveEngine(t) /\ LocksOnly
    \/ \E t \in AttThreads : StartSnapshot(t) /\ LocksOnly
    \/ \E t \in AttThreads : CtorMonGuard(t) /\ LocksOnly
    \/ \E t \in AttThreads : CtorReleaseShared(t) /\ LocksOnly
    \/ \E t \in LockThreads : DumpGuard(t) /\ LocksOnly
    \/ \E t \in LockThreads : DumpCheckout(t) /\ LocksOnly
    \/ \E t \in LockThreads : DumpAttGuard(t) /\ LocksOnly
    \/ \E t \in LockThreads : DumpAttDone(t) /\ LocksOnly
    \/ \E t \in LockThreads : DumpCheckin(t) /\ LocksOnly
    \/ \E t \in LockThreads : DumpReturn(t) /\ LocksOnly
    \/ \E t \in AttThreads : CtorMonUnguard(t) /\ LocksOnly
    \/ \E t \in AttThreads : CtorLockEx(t) /\ LocksOnly
    \/ \E t \in AttThreads : CtorReleaseEx(t) /\ LocksOnly
    \/ \E t \in AttThreads : CtorReadGuard(t) /\ LocksOnly
    \/ \E t \in AttThreads : CtorReadDone(t) /\ LocksOnly
    \/ \E t \in AttThreads : ReacquireShared(t) /\ LocksOnly
    \/ AstCall /\ LocksOnly
    \/ AstFirstTest /\ LocksOnly
    \/ AstMonGuard /\ LocksOnly
    \/ AstSecondTest /\ LocksOnly
    \/ AstReleaseShared /\ LocksOnly
    \/ AstMonUnguard /\ LocksOnly

\* The threads outside the engine, the shared lock held; everything else parked.
LocksInit == InitLocks /\ StoreParked /\ FilterParked /\ ProtoParked /\ SnapParked /\ FieldParked /\ GuardParked /\ RefParked /\ PtrParked

SpecLocks == LocksInit /\ [][NextLocks]_vars

\* C31: no thread starts waiting for a lock of the list (monitor lock,
\* dbb_mon_sync, region mutex, attachment latch) while it holds a lock that
\* comes later in the list.
C31_AcquiresInListOrder ==
    \A t \in LockThreads :
        Wanted(t) # "none" => \A l \in HeldLocks(t) : Rank(l) <= Rank(Wanted(t))

=============================================================================
